---- MODULE Spec2Model ----
(***************************************************************************)
(* Model of the Discord AI admin bot (src/main.py): the action pipeline    *)
(* of /server_ai (model output -> action list -> destructive gate ->       *)
(* ConfirmView -> execute_action) over a small guild.                      *)
(*                                                                         *)
(* Conventions.                                                            *)
(*  - A Python string is a sequence of one-character strings, so that      *)
(*    startswith, int() and str() are computed and not assumed.            *)
(*  - A JSON value is a record [k, s]: k is its kind ("str", "num",        *)
(*    "null", or "absent" for a key the object does not have), s its       *)
(*    characters (the digits of a number).                                 *)
(*  - One step of a handler is the code between two awaits: asyncio runs   *)
(*    one task at a time and switches tasks only at an await.              *)
(*  - Every platform mutation is a remote call that may be rejected: the   *)
(*    rejected outcome is always one of the outcomes of the step.          *)
(***************************************************************************)
EXTENDS Integers, Sequences, FiniteSets, TLC

VARIABLES
    guild,            \* the scope: channels, roles, member roles, overwrites
    tasks,            \* the handler coroutines, running and finished
    views,            \* the ConfirmView objects, by message id
    messages,         \* what clients see of each confirmation prompt
    PENDING_ACTIONS,  \* main.py:47
    inflight,         \* component interactions sent by clients, not yet dispatched
    notices,          \* the refusals users were shown: <<kind, message id, user>>
    now,              \* the clock
    clicks            \* how many button clicks clients have made

vars == <<guild, tasks, views, messages, PENDING_ACTIONS, inflight, notices, now, clicks>>

(***************************************************************************)
(* Bounds of the model.                                                    *)
(***************************************************************************)
MaxInstr == 1      \* /server_ai invocations
MaxClicks == 2     \* button clicks by clients
MaxTime == 180     \* the clock stops advancing here
TickUnit == 60     \* the clock advances by this much

(***************************************************************************)
(* Python strings.                                                         *)
(***************************************************************************)
Digits == <<"0","1","2","3","4","5","6","7","8","9">>

IsDigit(c) == \E d \in 1..10 : Digits[d] = c

DigitVal(c) == (CHOOSE d \in 1..10 : Digits[d] = c) - 1

HexDigits == <<"0","1","2","3","4","5","6","7","8","9","a","b","c","d","e","f">>

IsHexDigit(c) == \E d \in 1..16 : HexDigits[d] = c

HexDigitVal(c) == (CHOOSE d \in 1..16 : HexDigits[d] = c) - 1

\* str.startswith
StartsWith(s, p) == Len(s) >= Len(p) /\ SubSeq(s, 1, Len(p)) = p

\* str.endswith
EndsWith(s, p) == Len(s) >= Len(p) /\ SubSeq(s, Len(s) - Len(p) + 1, Len(s)) = p

RECURSIVE NatOf(_)
\* the value of a sequence of decimal digits
NatOf(s) == IF s = <<>> THEN 0 ELSE 10 * NatOf(SubSeq(s, 1, Len(s) - 1)) + DigitVal(s[Len(s)])

AllDigits(s) == s # <<>> /\ \A i \in 1..Len(s) : IsDigit(s[i])

\* int(s): -1 stands for ValueError.  Entity ids are positive, so a signed
\* literal never names one and is read as no id.
PyInt(s) == IF AllDigits(s) THEN NatOf(s) ELSE -1

RECURSIVE HexOf(_)
HexOf(s) == IF s = <<>> THEN 0 ELSE 16 * HexOf(SubSeq(s, 1, Len(s) - 1)) + HexDigitVal(s[Len(s)])

RECURSIVE StripHash(_)
\* str.strip("#")
StripHash(s) ==
    IF s # <<>> /\ s[1] = "#" THEN StripHash(Tail(s))
    ELSE IF s # <<>> /\ s[Len(s)] = "#" THEN StripHash(SubSeq(s, 1, Len(s) - 1))
    ELSE s

\* int(s, 16): -1 stands for ValueError
PyIntHex(s) == IF s # <<>> /\ (\A i \in 1..Len(s) : IsHexDigit(s[i])) THEN HexOf(s) ELSE -1

RECURSIVE DecimalOf(_)
\* str(n) of a number that is not negative
DecimalOf(n) ==
    IF n < 10 THEN <<Digits[n + 1]>>
    ELSE Append(DecimalOf(n \div 10), Digits[(n % 10) + 1])

\* ''.join(ch for ch in value if ch.isdigit())
OnlyDigits(s) == SelectSeq(s, IsDigit)

(***************************************************************************)
(* JSON values and the elements of an "actions" list.                      *)
(***************************************************************************)
Absent == [k |-> "absent", s |-> <<>>]

Null == [k |-> "null", s |-> <<>>]

Str(s) == [k |-> "str", s |-> s]

Num(s) == [k |-> "num", s |-> s]

\* dict.get(key, default)
Get(v, default) == IF v.k = "absent" THEN default ELSE v

\* dict.get(key): None when the key is absent
GetNone(v) == Get(v, Null)

\* the truth value of a JSON value
Truthy(v) ==
    \/ v.k = "str" /\ v.s # <<>>
    \/ v.k = "num" /\ PyInt(v.s) # 0

S_None == <<"N","o","n","e">>

\* str(v)
PyStr(v) == IF v.k \in {"null", "absent"} THEN S_None ELSE v.s

\* v == "literal"
IsStrEq(v, s) == v.k = "str" /\ v.s = s

\* a permission map: k is "absent", "dict", "list" or "null"; items are
\* [key, val], val one of "T" (true), "F" (false), "N" (null), "X" (other)
PAbsent == [k |-> "absent", items |-> <<>>]

T_create_channel == <<"c","r","e","a","t","e","_","c","h","a","n","n","e","l">>
T_delete_channel == <<"d","e","l","e","t","e","_","c","h","a","n","n","e","l">>
T_create_role == <<"c","r","e","a","t","e","_","r","o","l","e">>
T_delete_role == <<"d","e","l","e","t","e","_","r","o","l","e">>
T_assign_role == <<"a","s","s","i","g","n","_","r","o","l","e">>
T_remove_role == <<"r","e","m","o","v","e","_","r","o","l","e">>
T_lock_channel == <<"l","o","c","k","_","c","h","a","n","n","e","l">>
T_unlock_channel == <<"u","n","l","o","c","k","_","c","h","a","n","n","e","l">>
T_create_category == <<"c","r","e","a","t","e","_","c","a","t","e","g","o","r","y">>
T_set_channel_permissions ==
    <<"s","e","t","_","c","h","a","n","n","e","l","_","p","e","r","m","i","s","s","i","o","n","s">>

KnownTypes ==
    {T_create_channel, T_delete_channel, T_create_role, T_delete_role, T_assign_role,
     T_remove_role, T_lock_channel, T_unlock_channel, T_create_category,
     T_set_channel_permissions}

BaseAction ==
    [isdict |-> TRUE, type |-> Absent, channel_type |-> Absent, name |-> Absent,
     category |-> Absent, name_or_id |-> Absent, color |-> Absent, user |-> Absent,
     role |-> Absent, channel |-> Absent, role_or_user |-> Absent, permissions |-> PAbsent,
     overwrites |-> PAbsent]

\* an element of the list that is not a JSON object (a string, a number)
NotAnObject == [BaseAction EXCEPT !.isdict = FALSE]

(***************************************************************************)
(* The guild.  Entity names are Python strings; ids are numbers.           *)
(***************************************************************************)
S_gen == <<"g","e","n">>
S_vc == <<"v","c">>
S_mod == <<"m","o","d">>
S_news == <<"n","e","w","s">>
S_ops == <<"o","p","s">>
S_everyone == <<"@","e","v","e","r","y","o","n","e">>
S_alice == <<"a","l","i","c","e">>
S_bob == <<"b","o","b">>
S_carol == <<"c","a","r","o","l">>
S_text == <<"t","e","x","t">>
S_voice == <<"v","o","i","c","e">>
S_new_channel == <<"n","e","w","-","c","h","a","n","n","e","l">>
S_NewRole == <<"N","e","w","R","o","l","e">>
S_Category == <<"C","a","t","e","g","o","r","y">>
S_disc == <<"0">>

\* the ids of the entities the guild starts with, and the first id it hands out
Id == [guild |-> 1, gen |-> 11, vc |-> 12, mod |-> 21, alice |-> 31, bob |-> 32,
       carol |-> 33, first |-> 41]

\* guild.default_role has the id of the guild
GuildId == Id.guild
AliceId == Id.alice
BobId == Id.bob
CarolId == Id.carol

\* guild.members, with the two permissions the bot reads
Members ==
    {[id |-> AliceId, name |-> S_alice, discriminator |-> S_disc,
      administrator |-> FALSE, manage_guild |-> TRUE],
     [id |-> BobId, name |-> S_bob, discriminator |-> S_disc,
      administrator |-> TRUE, manage_guild |-> TRUE],
     [id |-> CarolId, name |-> S_carol, discriminator |-> S_disc,
      administrator |-> FALSE, manage_guild |-> FALSE]}

MemberIds == {m.id : m \in Members}

MemberOf(id) == CHOOSE m \in Members : m.id = id

InitGuild ==
    [channels |-> {[id |-> Id.gen, name |-> S_gen, kind |-> "text", cat |-> 0],
                   [id |-> Id.vc, name |-> S_vc, kind |-> "voice", cat |-> 0]},
     roles |-> {[id |-> GuildId, name |-> S_everyone, color |-> 0, perms |-> {}],
                [id |-> Id.mod, name |-> S_mod, color |-> 0, perms |-> {}]},
     members |-> Members,
     memberRoles |-> [m \in MemberIds |-> IF m = BobId THEN {Id.mod} ELSE {}],
     overwrites |-> {},
     nextId |-> Id.first]

\* PermissionOverwrite(): every flag unset
EmptyOverwrite == [send_messages |-> "N", view_channel |-> "N"]

\* the names hasattr(overwrite, name) accepts, among those the inputs use
OverwriteFlags == {"send_messages", "view_channel"}

\* names hasattr accepts that are not flags: methods of the slotted class,
\* which setattr refuses with AttributeError
OverwriteMethods == {"pair"}

\* channel.overwrites_for(target)
overwrites_for(g, ch, target) ==
    LET have == {o \in g.overwrites : o.ch = ch /\ o.target = target}
    IN  IF have = {} THEN EmptyOverwrite ELSE (CHOOSE o \in have : TRUE).ow

\* a set_permissions that replaces the whole overwrite table of the guild
SetPermissions_ReplaceAll(g, ch, target, ow) ==
    [g EXCEPT !.overwrites = {[ch |-> ch, target |-> target, ow |-> ow]}]

\* channel.set_permissions(target, overwrite=ow), accepted by the platform
SetPermissions(g, ch, target, ow) ==
    [g EXCEPT !.overwrites =
        {o \in @ : ~(o.ch = ch /\ o.target = target)}
            \cup {[ch |-> ch, target |-> target, ow |-> ow]}]

\* guild.create_text_channel / create_voice_channel / create_category, accepted
AddChannel(g, name, kind, cat) ==
    [g EXCEPT !.channels = @ \cup {[id |-> g.nextId, name |-> name, kind |-> kind, cat |-> cat]},
              !.nextId = @ + 1]

\* channel.delete(), accepted: the channels of a deleted category lose their parent
RemoveChannel(g, id) ==
    [g EXCEPT !.channels = {[c EXCEPT !.cat = IF c.cat = id THEN 0 ELSE c.cat] :
                                c \in {x \in @ : x.id # id}},
              !.overwrites = {o \in @ : o.ch # id}]

\* guild.create_role, accepted
AddRole(g, name, color, perms) ==
    [g EXCEPT !.roles = @ \cup {[id |-> g.nextId, name |-> name, color |-> color, perms |-> perms]},
              !.nextId = @ + 1]

\* role.delete(), accepted
RemoveRole(g, id) ==
    [g EXCEPT !.roles = {r \in @ : r.id # id},
              !.memberRoles = [m \in MemberIds |-> @[m] \ {id}],
              !.overwrites = {o \in @ : o.target # id}]

(***************************************************************************)
(* Entity resolution.  Each returns the set of entities the lookup can     *)
(* return: empty for None, several when names tie (first match in the      *)
(* platform's iteration order).                                            *)
(***************************************************************************)
\* a lookup that tries the name before the id
find_channel_by_name_or_id_NameFirst(g, name_or_id) ==
    LET byName == {c \in g.channels : c.name = name_or_id}
    IN  IF byName # {} THEN byName ELSE {c \in g.channels : c.id = PyInt(name_or_id)}

find_channel_by_name_or_id(g, name_or_id) ==
    LET byId == {c \in g.channels : c.id = PyInt(name_or_id)}
    IN  IF byId # {} THEN byId ELSE {c \in g.channels : c.name = name_or_id}

find_role_by_name_or_id(g, name_or_id) ==
    LET byId == {r \in g.roles : r.id = PyInt(name_or_id)}
    IN  IF byId # {} THEN byId ELSE {r \in g.roles : r.name = name_or_id}

find_member_by_mention_or_id(g, value) ==
    LET byId == {m \in g.members : m.id = PyInt(value)}
        isMention == StartsWith(value, <<"<","@">>) /\ EndsWith(value, <<">">>)
        byMention == {m \in g.members : isMention /\ m.id = PyInt(OnlyDigits(value))}
        byName == {m \in g.members :
                      \/ m.name = value
                      \/ m.name \o <<"#">> \o m.discriminator = value}
    IN  IF byId # {} THEN byId
        ELSE IF byMention # {} THEN byMention
        ELSE byName

(***************************************************************************)
(* execute_action (main.py:182-337).  ExecuteAction(g, a) is the set of    *)
(* outcomes [g, res, raised] of one call: g the guild afterwards, res the  *)
(* returned {ok, message}, raised whether an exception left the function.  *)
(* A message is [t, a]: the text of the f-string and the value put in it.  *)
(***************************************************************************)
Msg(t, a) == [t |-> t, a |-> a]

Out(g, ok, t, a) == [g |-> g, res |-> [ok |-> ok, message |-> Msg(t, a)], raised |-> FALSE]

\* an exception inside the try block: main.py:336-337
Caught(g) == Out(g, FALSE, "Exception", <<>>)

\* an exception outside the try block leaves execute_action
Raised(g) == [g |-> g, res |-> [ok |-> FALSE, message |-> Msg("", <<>>)], raised |-> TRUE]

RECURSIVE ApplyPerms(_, _)
\* main.py:325-327: [ok, ow], the overwrite after the loop; ok is FALSE when a
\* value is neither a boolean nor null (PermissionOverwrite raises TypeError)
ApplyPerms(ow, items) ==
    IF items = <<>> THEN [ok |-> TRUE, ow |-> ow]
    ELSE LET it == Head(items)
         IN  IF it.key \notin OverwriteFlags \cup OverwriteMethods THEN ApplyPerms(ow, Tail(items))
             ELSE IF it.key \in OverwriteMethods \/ it.val = "X" THEN [ok |-> FALSE, ow |-> ow]
             ELSE ApplyPerms([ow EXCEPT ![it.key] = it.val], Tail(items))

RECURSIVE BuildOverwrites(_, _, _)
\* main.py:203-210: [ok, ows], the overwrites built for the roles that were
\* found, each from an empty PermissionOverwrite; items are [role, perms];
\* ok is FALSE when the loop raises
BuildOverwrites(g, items, acc) ==
    IF items = <<>> THEN {[ok |-> TRUE, ows |-> acc]}
    ELSE LET it == Head(items)
             roles == find_role_by_name_or_id(g, it.role)
             applied == ApplyPerms(EmptyOverwrite, it.perms.items)
         IN  IF roles = {} THEN BuildOverwrites(g, Tail(items), acc)
             ELSE IF it.perms.k # "dict" \/ ~applied.ok THEN {[ok |-> FALSE, ows |-> acc]}
             ELSE UNION {BuildOverwrites(g, Tail(items),
                             {o \in acc : o.target # r.id}
                                 \cup {[target |-> r.id, ow |-> applied.ow]}) :
                         r \in roles}

\* guild.create_text_channel(name, category=..., overwrites=ows), accepted
AddChannelWith(g, name, kind, cat, ows) ==
    [AddChannel(g, name, kind, cat) EXCEPT
        !.overwrites = @ \cup {[ch |-> g.nextId, target |-> o.target, ow |-> o.ow] : o \in ows}]

\* a lookup that never sees a category
categories_named_Stale(g, category_name) == {}

\* main.py:193: the cached categories discord.utils.get(guild.categories,
\* name=category_name) chooses from
categories_named(g, category_name) ==
    {c \in g.channels : c.kind = "category" /\ IsStrEq(category_name, c.name)}

\* main.py:188-213
ExecCreateChannel(g, a) ==
    LET ch_type == Get(a.channel_type, Str(S_text))
        name == IF Truthy(GetNone(a.name)) THEN PyStr(a.name) ELSE S_new_channel
        category_name == GetNone(a.category)
        kind == IF IsStrEq(ch_type, S_voice) THEN "voice" ELSE "text"
        cats == categories_named(g, category_name)
        mustCreate == Truthy(category_name) /\ cats = {}
        resolved ==
            IF ~Truthy(category_name) THEN {[g |-> g, cat |-> 0]}
            ELSE IF cats # {} THEN {[g |-> g, cat |-> c.id] : c \in cats}
            ELSE {[g |-> AddChannel(g, PyStr(category_name), "category", 0),
                   cat |-> g.nextId]}
        given == a.overwrites
        built == IF kind = "voice" \/ given.k \in {"absent", "null"}
                    \/ (given.k = "dict" /\ given.items = <<>>)
                 THEN {[ok |-> TRUE, ows |-> {}]}
                 ELSE IF given.k # "dict" THEN {[ok |-> FALSE, ows |-> {}]}
                 ELSE BuildOverwrites(g, given.items, {})
    IN  (IF mustCreate THEN {Caught(g)} ELSE {})
        \cup UNION {IF ~b.ok THEN {Caught(r.g)}
                    ELSE {Caught(r.g),
                          Out(AddChannelWith(r.g, name, kind, r.cat, b.ows), TRUE,
                              "Created channel", name)} :
                    r \in resolved, b \in built}

\* main.py:214-220
ExecDeleteChannel(g, a) ==
    LET target == GetNone(a.name_or_id)
        found == find_channel_by_name_or_id(g, PyStr(target))
    IN  IF found = {} THEN {Out(g, FALSE, "Channel not found", PyStr(target))}
        ELSE UNION {{Caught(g),
                     Out(RemoveChannel(g, ch.id), TRUE, "Deleted channel", PyStr(target))} :
                    ch \in found}

\* the allow-list of main.py:233-240
perm_map ==
    {"manage_messages", "kick_members", "ban_members", "administrator",
     "manage_channels", "manage_guild"}

\* main.py:221-246
ExecCreateRole(g, a) ==
    LET name == Get(a.name, Str(S_NewRole))
        color == GetNone(a.color)
        perms == Get(a.permissions, [k |-> "list", items |-> <<>>])
        parsed == IF color.k = "str" THEN PyIntHex(StripHash(color.s)) ELSE -1
        discord_color == IF Truthy(color) /\ parsed >= 0 THEN parsed ELSE 0
        permissions == {perms.items[i].key : i \in 1..Len(perms.items)} \cap perm_map
    IN  IF perms.k = "null" THEN {Caught(g)}
        ELSE {Caught(g),
              Out(AddRole(g, PyStr(name), discord_color, permissions), TRUE,
                  "Created role", PyStr(name))}

\* main.py:247-253.  The platform never deletes the default role.
ExecDeleteRole(g, a) ==
    LET target == GetNone(a.name_or_id)
        found == find_role_by_name_or_id(g, PyStr(target))
    IN  IF found = {} THEN {Out(g, FALSE, "Role not found", PyStr(target))}
        ELSE UNION {{Caught(g)} \cup
                    (IF role.id = GuildId THEN {}
                     ELSE {Out(RemoveRole(g, role.id), TRUE, "Deleted role", PyStr(target))}) :
                    role \in found}

\* a variant that reports the missing role before the missing member
ExecMemberRole_RoleFirst(g, a, add) ==
    LET user_ref == GetNone(a.user)
        role_ref == GetNone(a.role)
        members == find_member_by_mention_or_id(g, PyStr(user_ref))
        roles == find_role_by_name_or_id(g, PyStr(role_ref))
    IN  IF roles = {} THEN {Out(g, FALSE, "Role not found", PyStr(role_ref))}
        ELSE IF members = {} THEN {Out(g, FALSE, "Member not found", PyStr(user_ref))}
        ELSE UNION {{Caught(g),
                     Out([g EXCEPT !.memberRoles[member.id] =
                                IF add THEN @ \cup {role.id} ELSE @ \ {role.id}],
                         TRUE, IF add THEN "Assigned role" ELSE "Removed role",
                         role.name \o <<" ">> \o member.name)} :
                    member \in members, role \in roles}

\* main.py:254-275; add is TRUE for assign_role, FALSE for remove_role
ExecMemberRole(g, a, add) ==
    LET user_ref == GetNone(a.user)
        role_ref == GetNone(a.role)
        members == find_member_by_mention_or_id(g, PyStr(user_ref))
        roles == find_role_by_name_or_id(g, PyStr(role_ref))
    IN  IF members = {} THEN {Out(g, FALSE, "Member not found", PyStr(user_ref))}
        ELSE IF roles = {} THEN {Out(g, FALSE, "Role not found", PyStr(role_ref))}
        ELSE UNION {{Caught(g),
                     Out([g EXCEPT !.memberRoles[member.id] =
                                IF add THEN @ \cup {role.id} ELSE @ \ {role.id}],
                         TRUE, IF add THEN "Assigned role" ELSE "Removed role",
                         role.name \o <<" ">> \o member.name)} :
                    member \in members, role \in roles}

\* main.py:276-297; lock is TRUE for lock_channel, FALSE for unlock_channel
ExecLock(g, a, lock) ==
    LET target == GetNone(a.name_or_id)
        found == find_channel_by_name_or_id(g, PyStr(target))
    IN  IF found = {} THEN {Out(g, FALSE, "Channel not found", PyStr(target))}
        ELSE UNION {IF ch.kind # "text"
                    THEN {Out(g, FALSE,
                              IF lock THEN "Cannot lock non-text channel"
                              ELSE "Cannot unlock non-text channel", PyStr(target))}
                    ELSE {Caught(g),
                          Out(SetPermissions(g, ch.id, GuildId,
                                  [overwrites_for(g, ch.id, GuildId) EXCEPT
                                      !.send_messages = IF lock THEN "F" ELSE "T"]),
                              TRUE, IF lock THEN "Locked channel" ELSE "Unlocked channel",
                              ch.name)} :
                    ch \in found}

\* a category creation that fails after the platform has made the category
ExecCreateCategory_Partial(g, a) ==
    LET name == Get(a.name, Str(S_Category))
    IN  {Caught(AddChannel(g, PyStr(name), "category", 0)),
         Out(AddChannel(g, PyStr(name), "category", 0), TRUE, "Created category", PyStr(name))}

\* main.py:298-301
ExecCreateCategory(g, a) ==
    LET name == Get(a.name, Str(S_Category))
    IN  {Caught(g),
         Out(AddChannel(g, PyStr(name), "category", 0), TRUE, "Created category", PyStr(name))}

\* a resolution that prefers the member and falls back to the role
target_obj_MemberFirst(g, role_or_user) ==
    LET members == find_member_by_mention_or_id(g, PyStr(role_or_user))
        roles == IF members # {} THEN {}
                 ELSE find_role_by_name_or_id(g, PyStr(role_or_user))
    IN  {[id |-> r.id, name |-> r.name, kind |-> "role"] : r \in roles}
        \cup {[id |-> m.id, name |-> m.name, kind |-> "user"] : m \in members}

\* main.py:313-320: the role found for the reference, a member only when no
\* role is found
target_obj(g, role_or_user) ==
    LET roles == find_role_by_name_or_id(g, PyStr(role_or_user))
        members == IF roles # {} THEN {}
                   ELSE find_member_by_mention_or_id(g, PyStr(role_or_user))
    IN  {[id |-> r.id, name |-> r.name, kind |-> "role"] : r \in roles}
        \cup {[id |-> m.id, name |-> m.name, kind |-> "user"] : m \in members}

\* main.py:302-333
ExecSetChannelPermissions(g, a) ==
    LET target == GetNone(a.channel)
        found == find_channel_by_name_or_id(g, PyStr(target))
        role_or_user == GetNone(a.role_or_user)
        permissions == Get(a.permissions, [k |-> "dict", items |-> <<>>])
        targets == target_obj(g, role_or_user)
    IN  IF found = {} THEN {Out(g, FALSE, "Channel not found", PyStr(target))}
        ELSE UNION {
            IF ch.kind \notin {"text", "voice"}
            THEN {Out(g, FALSE, "Cannot set permissions on this channel type", PyStr(target))}
            ELSE IF targets = {}
            THEN {Out(g, FALSE, "Role or user not found", PyStr(role_or_user))}
            ELSE IF permissions.k # "dict" THEN {Caught(g)}
            ELSE UNION {
                LET applied == ApplyPerms(overwrites_for(g, ch.id, t.id), permissions.items)
                IN  IF ~applied.ok THEN {Caught(g)}
                    ELSE {Caught(g),
                          Out(SetPermissions(g, ch.id, t.id, applied.ow), TRUE,
                              IF t.kind = "role" THEN "Set permissions for role"
                              ELSE "Set permissions for user",
                              t.name \o <<" ">> \o ch.name)} :
                t \in targets} :
            ch \in found}

\* main.py:182-337
ExecuteAction(g, a) ==
    IF ~a.isdict THEN {Raised(g)}
    ELSE LET typ == GetNone(a.type)
         IN  IF IsStrEq(typ, T_create_channel) THEN ExecCreateChannel(g, a)
             ELSE IF IsStrEq(typ, T_delete_channel) THEN ExecDeleteChannel(g, a)
             ELSE IF IsStrEq(typ, T_create_role) THEN ExecCreateRole(g, a)
             ELSE IF IsStrEq(typ, T_delete_role) THEN ExecDeleteRole(g, a)
             ELSE IF IsStrEq(typ, T_assign_role) THEN ExecMemberRole(g, a, TRUE)
             ELSE IF IsStrEq(typ, T_remove_role) THEN ExecMemberRole(g, a, FALSE)
             ELSE IF IsStrEq(typ, T_lock_channel) THEN ExecLock(g, a, TRUE)
             ELSE IF IsStrEq(typ, T_unlock_channel) THEN ExecLock(g, a, FALSE)
             ELSE IF IsStrEq(typ, T_create_category) THEN ExecCreateCategory(g, a)
             ELSE IF IsStrEq(typ, T_set_channel_permissions) THEN ExecSetChannelPermissions(g, a)
             ELSE {Out(g, FALSE, "Unknown action type", PyStr(typ))}

(***************************************************************************)
(* The destructive gate and the confirmation view.                         *)
(***************************************************************************)
S_delete_ == <<"d","e","l","e","t","e","_">>

\* a gate that looks at the first element only
Destructive_FirstOnly(actions) ==
    IF actions = <<>> THEN "false"
    ELSE LET a == Head(actions)
             typ == Get(a.type, Str(<<>>))
         IN  IF ~a.isdict \/ typ.k # "str" THEN "raise"
             ELSE IF StartsWith(typ.s, S_delete_) THEN "true"
             ELSE "false"

RECURSIVE Destructive(_)
\* main.py:607, any(a.get("type","").startswith("delete_") for a in actions):
\* "true", "false", or "raise" when an element reached by the scan has no
\* .get (not an object) or a tag with no .startswith (null, a number).
\* any() stops at the first true element.
Destructive(actions) ==
    IF actions = <<>> THEN "false"
    ELSE LET a == Head(actions)
             typ == Get(a.type, Str(<<>>))
         IN  IF ~a.isdict \/ typ.k # "str" THEN "raise"
             ELSE IF StartsWith(typ.s, S_delete_) THEN "true"
             ELSE Destructive(Tail(actions))

\* the timeout the view is built with: main.py:341
ViewTimeout == 120

\* a view built with timeout=None
ConfirmView_NoTimeout(actions, author_id, at) ==
    [actions |-> actions, author_id |-> author_id,
     result |-> [set |-> FALSE, val |-> <<>>],
     disabled |-> FALSE, timeout |-> 0, expiry |-> at,
     created |-> at, stopped |-> FALSE]

\* ConfirmView.__init__ (main.py:340-345) and the start of its timeout when
\* the prompt is sent at time `at`; timeout 0 stands for None (never expires)
ConfirmView(actions, author_id, at) ==
    [actions |-> actions, author_id |-> author_id,
     result |-> [set |-> FALSE, val |-> <<>>],
     disabled |-> FALSE, timeout |-> ViewTimeout, expiry |-> at + ViewTimeout,
     created |-> at, stopped |-> FALSE]

\* a check that lets every member through
interaction_check_anyone(view, user) == TRUE

\* ConfirmView.interaction_check (main.py:347-354)
interaction_check(view, user) ==
    IF user # view.author_id
    THEN MemberOf(user).administrator
    ELSE TRUE

\* ADMIN_CHECK (main.py:44)
ADMIN_CHECK(user) == MemberOf(user).manage_guild

(***************************************************************************)
(* What the model endpoint can answer, as far as lines 584-604 read it:    *)
(* json is whether lines 585-599 recover a JSON value from the text,       *)
(* isdict whether that value is an object, actions its "actions" value     *)
(* (k is "list", "absent", or "other" for a value that is no list).        *)
(***************************************************************************)
S_zzz == <<"z","z","z">>
S_delete_all == <<"d","e","l","e","t","e","_","a","l","l">>
S_ban == <<"b","a","n">>

A_create_news == [BaseAction EXCEPT !.type = Str(T_create_channel), !.name = Str(S_news),
                                    !.channel_type = Str(S_text)]
A_delete_gen == [BaseAction EXCEPT !.type = Str(T_delete_channel), !.name_or_id = Str(S_gen)]
A_delete_zzz == [BaseAction EXCEPT !.type = Str(T_delete_channel), !.name_or_id = Str(S_zzz)]
A_delete_mod == [BaseAction EXCEPT !.type = Str(T_delete_role), !.name_or_id = Str(S_mod)]
A_delete_all == [BaseAction EXCEPT !.type = Str(S_delete_all)]
A_ban == [BaseAction EXCEPT !.type = Str(S_ban)]
A_null_type == [BaseAction EXCEPT !.type = Null]
A_num_type == [BaseAction EXCEPT !.type = Num(<<"5">>)]
A_no_type == BaseAction
A_setperm_nomap == [BaseAction EXCEPT !.type = Str(T_set_channel_permissions),
                       !.channel = Str(S_gen), !.role_or_user = Str(S_mod)]
A_create_noname == [BaseAction EXCEPT !.type = Str(T_create_channel)]
A_create_None == [BaseAction EXCEPT !.type = Str(T_create_channel), !.name = Str(S_None)]
A_delete_noref == [BaseAction EXCEPT !.type = Str(T_delete_channel)]

ActionLists ==
    {<<A_create_news>>,
     <<A_delete_gen>>,
     <<A_delete_zzz, A_create_news>>,
     <<A_delete_all>>,
     <<A_ban, A_create_news>>,
     <<A_no_type>>,
     <<A_null_type, A_delete_gen>>,
     <<A_delete_gen, A_null_type>>,
     <<A_num_type>>,
     <<A_delete_mod, NotAnObject, A_create_news>>,
     <<A_setperm_nomap>>,
     <<A_create_noname>>,
     <<A_create_None, A_delete_noref>>}

ListOf(items) == [k |-> "list", items |-> items]

ModelOutputs ==
    {[json |-> TRUE, isdict |-> TRUE, actions |-> ListOf(l)] : l \in ActionLists}
    \cup {[json |-> TRUE, isdict |-> TRUE, actions |-> ListOf(<<>>)],
          [json |-> TRUE, isdict |-> TRUE, actions |-> [k |-> "absent", items |-> <<>>]],
          [json |-> TRUE, isdict |-> TRUE, actions |-> [k |-> "other", items |-> <<>>]],
          [json |-> TRUE, isdict |-> FALSE, actions |-> [k |-> "absent", items |-> <<>>]],
          [json |-> FALSE, isdict |-> FALSE, actions |-> [k |-> "absent", items |-> <<>>]]}

(***************************************************************************)
(* The model text.  A text is a sequence of pieces.  A piece is either one *)
(* character, "{", "}", "[", "]" or "x" (any character that is not JSON    *)
(* syntax), or the JSON text of one value: of an object, which starts with *)
(* "{" and ends with "}", or of a number or a string, which holds no brace *)
(* and no bracket.  A value is what lines 601-604 read of it: whether it   *)
(* is an object and what its "actions" key holds.                          *)
(***************************************************************************)
\* json.loads raised
NoValue == [json |-> FALSE, isdict |-> FALSE, actions |-> [k |-> "absent", items |-> <<>>]]

\* {} and every other object without the key "actions"
EmptyObject == [json |-> TRUE, isdict |-> TRUE, actions |-> [k |-> "absent", items |-> <<>>]]

\* a list, a number, a string
NonObject == [json |-> TRUE, isdict |-> FALSE, actions |-> [k |-> "absent", items |-> <<>>]]

\* {"actions": l}
ActionsObject(l) == [json |-> TRUE, isdict |-> TRUE, actions |-> ListOf(l)]

Ch(c) == [c |-> c, v |-> NoValue]

J(v) == [c |-> "json", v |-> v]

X == Ch("x")

\* the piece starts with "{" / ends with "}"
Opens(p) == p.c = "{" \/ (p.c = "json" /\ p.v.isdict)

Closes(p) == p.c = "}" \/ (p.c = "json" /\ p.v.isdict)

RECURSIVE json_loads(_)
\* json.loads(text), main.py:586 and 593: the value, or NoValue when it raises.
\* The whole text must be one value: the text of a value, {}, or a list of
\* nothing or of one value.
json_loads(text) ==
    IF Len(text) = 1 /\ text[1].c = "json" THEN text[1].v
    ELSE IF Len(text) = 2 /\ text[1].c = "{" /\ text[2].c = "}" THEN EmptyObject
    ELSE IF /\ Len(text) >= 2
            /\ text[1].c = "[" /\ text[Len(text)].c = "]"
            /\ (Len(text) = 2 \/ json_loads(SubSeq(text, 2, Len(text) - 1)).json)
         THEN NonObject
    ELSE NoValue

\* re.search(r'(\{.*\})', model_text, flags=re.DOTALL), main.py:590: the match
\* starts at the first "{" and, .* being greedy, ends at the last "}"
re_search(text) ==
    LET starts == {i \in 1..Len(text) : Opens(text[i])}
        i == CHOOSE a \in starts : \A b \in starts : a <= b
        ends == {j \in i..Len(text) : Closes(text[j]) /\ (j > i \/ text[i].c = "json")}
        j == CHOOSE a \in ends : \A b \in ends : a >= b
    IN  IF starts = {} THEN [found |-> FALSE, group |-> <<>>]
        ELSE IF ends = {} THEN [found |-> FALSE, group |-> <<>>]
        ELSE [found |-> TRUE, group |-> SubSeq(text, i, j)]

\* main.py:585-599: `parsed`, or NoValue when both attempts fail
Parse(model_text) ==
    LET direct == json_loads(model_text)
        m == re_search(model_text)
    IN  IF direct.json THEN direct
        ELSE IF m.found THEN json_loads(m.group)
        ELSE NoValue

\* what the call of the endpoint comes to (main.py:93-107): a 200 response
\* with generated text, a 200 response of another shape, another status
\* with its payload, or an exception (timeout, transport)
Generated(body) == [how |-> "generated", body |-> body]

Other200 == [how |-> "other200", body |-> <<>>]

ErrorStatus(body) == [how |-> "status", body |-> body]

CallRaised == [how |-> "exception", body |-> <<>>]

\* call_huggingface_parse, main.py:73-107: the text it returns
call_huggingface_parse(reply) ==
    CASE reply.how = "generated" -> reply.body
      [] reply.how = "other200" -> <<Ch("{"), X, Ch("}")>>
      [] reply.how = "status" -> <<X>> \o reply.body
      [] reply.how = "exception" -> <<X>>

\* the model was not reached or did not answer with 200
InferenceFailed(reply) == reply.how \in {"status", "exception"}

\* the replies the model checker tries
ModelReplies ==
    {Generated(<<J(o)>>) : o \in {v \in ModelOutputs : v.json}}
    \cup {Generated(<<X>>),
          Generated(<<>>),
          Generated(<<Ch("{"), Ch("}")>>),
          Generated(<<X, J(ActionsObject(<<A_create_news>>)), X>>),
          Generated(<<Ch("{"), X, Ch("}"), J(ActionsObject(<<A_create_news>>))>>),
          Generated(<<J(ActionsObject(<<A_delete_gen>>)), X, Ch("}")>>),
          Generated(<<Ch("["), J(ActionsObject(<<A_create_news>>)), Ch("]")>>),
          Other200,
          CallRaised,
          ErrorStatus(<<>>),
          ErrorStatus(<<J(EmptyObject)>>),
          ErrorStatus(<<J(ActionsObject(<<A_create_news>>))>>),
          ErrorStatus(<<J(ActionsObject(<<A_delete_gen>>))>>)}

(***************************************************************************)
(* Tasks.                                                                  *)
(***************************************************************************)
\* raw is the model text the report quotes (hasRaw: whether it quotes it)
NoReport == [kind |-> "", n |-> 0, succeeded |-> 0, failed |-> 0,
             hasRaw |-> FALSE, raw |-> <<>>]

Report(kind) == [NoReport EXCEPT !.kind = kind]

\* a handler coroutine, kept once it has ended.  view is the message id of the
\* prompt it created or was dispatched for (0: none), at the time it started,
\* i the index of the next action to execute, destructive the value of the
\* local of line 607 ("": not computed), crash the place an exception left
\* the handler ("": none), how the way the call of the endpoint ended ("":
\* not yet), model_text the local of line 583, parsed the local of lines 586
\* and 593 (NoValue: not assigned).  Tasks are in the order they started.
NewTask(kind, user, auto, view, pc) ==
    [kind |-> kind, user |-> user, auto |-> auto, view |-> view, pc |-> pc, at |-> now,
     actions |-> <<>>, i |-> 1, results |-> <<>>, report |-> NoReport,
     destructive |-> "", crash |-> "", how |-> "", model_text |-> <<>>,
     parsed |-> NoValue]

TaskIds == DOMAIN tasks

ServerAiTasks == {t \in TaskIds : tasks[t].kind = "server_ai"}

Finished(t) == tasks[t].pc \in {"done", "crashed"}

Init ==
    /\ guild = InitGuild
    /\ tasks = <<>>
    /\ views = <<>>
    /\ messages = <<>>
    /\ PENDING_ACTIONS = <<>>
    /\ inflight = {}
    /\ notices = {}
    /\ now = 0
    /\ clicks = 0

\* the function f with key k set to v (k may be new)
Put(f, k, v) == [x \in DOMAIN f \cup {k} |-> IF x = k THEN v ELSE f[x]]

(***************************************************************************)
(* /server_ai (main.py:569-640).                                           *)
(***************************************************************************)
\* the command is invoked: ADMIN_CHECK, then lines 574-582 up to the await of
\* the model call
ServerAiInvoke(user, auto, inGuild) ==
    /\ Cardinality(ServerAiTasks) < MaxInstr
    /\ IF ~ADMIN_CHECK(user)
       THEN /\ notices' = notices \cup {<<"missing_permissions", 0, user>>}
            /\ UNCHANGED tasks
       ELSE /\ tasks' = Append(tasks,
                  IF inGuild THEN NewTask("server_ai", user, auto, 0, "calling_model")
                  ELSE [NewTask("server_ai", user, auto, 0, "done") EXCEPT
                            !.report = Report("guild_only")])
            /\ UNCHANGED notices
    /\ UNCHANGED <<guild, views, messages, PENDING_ACTIONS, inflight, now, clicks>>

\* an `actions` that is a list of one element too
NoActionsToPerform_EmptyOnly(actions) == actions.k = "list" /\ Len(actions.items) = 0

\* main.py:602, not isinstance(actions, list) or len(actions) == 0
NoActionsToPerform(actions) == actions.k # "list" \/ Len(actions.items) = 0

\* a diagnostic that leaves the model text out
ParseDiagnostic_NoRaw(model_text) == Report("parse_error")

\* main.py:595 and 598: the report of a failed parse quotes model_text whole
ParseDiagnostic(model_text) ==
    [Report("parse_error") EXCEPT !.hasRaw = TRUE, !.raw = model_text]

\* the model call ends with `reply`: lines 583-620, up to the next await
ServerAiModelReturns(t, reply) ==
    /\ tasks[t].kind = "server_ai" /\ tasks[t].pc = "calling_model"
    /\ LET model_text == call_huggingface_parse(reply)
           out == Parse(model_text)
           got_actions == IF out.actions.k = "absent" THEN ListOf(<<>>) ELSE out.actions
           actions == got_actions.items
           destructive == Destructive(actions)
           got == [tasks EXCEPT ![t].how = reply.how, ![t].model_text = model_text,
                                ![t].parsed = out]
           finish(pc, kind) == [got EXCEPT ![t].pc = pc, ![t].report = Report(kind)]
           crash(where) == [got EXCEPT ![t].pc = "crashed", ![t].crash = where]
       IN  IF ~out.json
           THEN /\ tasks' = [got EXCEPT ![t].pc = "done",
                                         ![t].report = ParseDiagnostic(model_text)]
                /\ UNCHANGED <<views, messages, PENDING_ACTIONS>>
           ELSE IF ~out.isdict
           THEN /\ tasks' = crash("parse")
                /\ UNCHANGED <<views, messages, PENDING_ACTIONS>>
           ELSE IF NoActionsToPerform(got_actions)
           THEN /\ tasks' = finish("done", "no_actions")
                /\ UNCHANGED <<views, messages, PENDING_ACTIONS>>
           ELSE IF destructive = "raise"
           THEN /\ tasks' = [crash("gate") EXCEPT ![t].actions = actions,
                                                   ![t].destructive = "raise"]
                /\ UNCHANGED <<views, messages, PENDING_ACTIONS>>
           ELSE IF destructive = "true" /\ ~tasks[t].auto
           THEN /\ tasks' = [finish("done", "pending") EXCEPT ![t].actions = actions,
                                                               ![t].destructive = destructive,
                                                               ![t].view = t]
                /\ views' = Put(views, t, ConfirmView(actions, tasks[t].user, now))
                /\ messages' = Put(messages, t, [disabled |-> FALSE, content |-> "Confirm AI Actions"])
                /\ PENDING_ACTIONS' = Put(PENDING_ACTIONS, t,
                       [user_id |-> tasks[t].user, guild_id |-> GuildId, actions |-> actions])
           ELSE /\ tasks' = [got EXCEPT ![t].pc = "executing", ![t].actions = actions,
                                         ![t].destructive = destructive]
                /\ UNCHANGED <<views, messages, PENDING_ACTIONS>>
    /\ UNCHANGED <<guild, inflight, notices, now, clicks>>

\* one turn of the loop of lines 624-626; after the last one, lines 629-638
ServerAiExecute(t) ==
    /\ tasks[t].kind = "server_ai" /\ tasks[t].pc = "executing"
    /\ \E o \in ExecuteAction(guild, tasks[t].actions[tasks[t].i]) :
        /\ guild' = o.g
        /\ tasks' = IF o.raised THEN [tasks EXCEPT ![t].pc = "crashed", ![t].crash = "execute"]
                    ELSE [tasks EXCEPT
                            ![t].results = Append(@, o.res),
                            ![t].i = @ + 1,
                            ![t].pc = IF tasks[t].i = Len(tasks[t].actions)
                                      THEN "reporting" ELSE "executing"]
    /\ UNCHANGED <<views, messages, PENDING_ACTIONS, inflight, notices, now, clicks>>

\* line 640: the report is sent
ServerAiReport(t) ==
    /\ tasks[t].kind = "server_ai" /\ tasks[t].pc = "reporting"
    /\ LET results == tasks[t].results
           success_count == Cardinality({j \in 1..Len(results) : results[j].ok})
       IN  tasks' = [tasks EXCEPT ![t].pc = "done",
                        ![t].report = [Report("results") EXCEPT
                                          !.n = Len(tasks[t].actions),
                                          !.succeeded = success_count,
                                          !.failed = Len(results) - success_count]]
    /\ UNCHANGED <<guild, views, messages, PENDING_ACTIONS, inflight, notices, now, clicks>>

(***************************************************************************)
(* The confirmation prompt (main.py:340-381).  discord.py delivers a       *)
(* button click to the view registered for the message as long as the view *)
(* has not timed out or been stopped (the client shows "interaction        *)
(* failed" otherwise); it runs interaction_check, then restarts the view's *)
(* timeout, then the button's callback.  It does not                       *)
(* read a button's `disabled` attribute: that only changes what a client   *)
(* shows once the message is edited with the view.                         *)
(***************************************************************************)
Buttons == {"confirm", "cancel"}

\* a member presses a button the client still shows as enabled
Click(m, user, button) ==
    /\ clicks < MaxClicks
    /\ m \in DOMAIN messages
    /\ ~messages[m].disabled
    /\ [view |-> m, user |-> user, button |-> button] \notin inflight
    /\ inflight' = inflight \cup {[view |-> m, user |-> user, button |-> button]}
    /\ clicks' = clicks + 1
    /\ UNCHANGED <<guild, tasks, views, messages, PENDING_ACTIONS, notices, now>>

\* the interaction x reaches the bot: the view's dispatch, interaction_check
\* (main.py:347-354) and the callback up to its first await (main.py:358 for
\* confirm, main.py:378-381 for cancel)
Dispatch(x) ==
    /\ x \in inflight
    /\ inflight' = inflight \ {x}
    /\ LET v == views[x.view]
       IN  IF v.stopped
           THEN /\ notices' = notices \cup {<<"interaction_failed", x.view, x.user>>}
                /\ UNCHANGED <<tasks, views>>
           ELSE IF ~interaction_check(v, x.user)
           THEN /\ notices' = notices \cup {<<"not_allowed", x.view, x.user>>}
                /\ UNCHANGED <<tasks, views>>
           ELSE /\ UNCHANGED notices
                /\ tasks' = Append(tasks,
                       [NewTask(x.button, x.user, FALSE, x.view,
                                IF x.button = "confirm" THEN "executing" ELSE "editing")
                            EXCEPT !.actions = IF x.button = "confirm" THEN v.actions ELSE <<>>])
                /\ views' = [views EXCEPT
                       ![x.view].expiry = IF v.timeout # 0 THEN now + v.timeout ELSE @,
                       ![x.view].disabled = IF x.button = "cancel" THEN TRUE ELSE @]
    /\ UNCHANGED <<guild, messages, PENDING_ACTIONS, now, clicks>>

\* ConfirmView.confirm, one turn of the loop of lines 364-366; after the last
\* one, line 367
ConfirmExecute(t) ==
    /\ tasks[t].kind = "confirm" /\ tasks[t].pc = "executing"
    /\ LET m == tasks[t].view
           last == tasks[t].i = Len(views[m].actions)
       IN  \E o \in ExecuteAction(guild, views[m].actions[tasks[t].i]) :
            /\ guild' = o.g
            /\ tasks' = IF o.raised
                        THEN [tasks EXCEPT ![t].pc = "crashed", ![t].crash = "execute"]
                        ELSE [tasks EXCEPT
                                ![t].results = Append(@, o.res),
                                ![t].i = @ + 1,
                                ![t].pc = IF last THEN "summary" ELSE "executing"]
            /\ views' = IF ~o.raised /\ last
                        THEN [views EXCEPT ![m].result =
                                 [set |-> TRUE, val |-> Append(tasks[t].results, o.res)]]
                        ELSE views
    /\ UNCHANGED <<messages, PENDING_ACTIONS, inflight, notices, now, clicks>>

\* ConfirmView.confirm, lines 369-373: the summary is sent, then the buttons
\* of the view object are disabled
ConfirmSummary(t) ==
    /\ tasks[t].kind = "confirm" /\ tasks[t].pc = "summary"
    /\ tasks' = [tasks EXCEPT ![t].pc = "editing",
                    ![t].report = [Report("executed") EXCEPT !.n = Len(tasks[t].results)]]
    /\ views' = [views EXCEPT ![tasks[t].view].disabled = TRUE]
    /\ UNCHANGED <<guild, messages, PENDING_ACTIONS, inflight, notices, now, clicks>>

\* ConfirmView.confirm, line 374: the prompt is redrawn with the disabled buttons
ConfirmEdit(t) ==
    /\ tasks[t].kind = "confirm" /\ tasks[t].pc = "editing"
    /\ tasks' = [tasks EXCEPT ![t].pc = "done"]
    /\ messages' = [messages EXCEPT ![tasks[t].view] =
                       [disabled |-> TRUE, content |-> "Confirmed"]]
    /\ UNCHANGED <<guild, views, PENDING_ACTIONS, inflight, notices, now, clicks>>

\* ConfirmView.cancel, line 381: the prompt is redrawn with the disabled buttons
CancelEdit(t) ==
    /\ tasks[t].kind = "cancel" /\ tasks[t].pc = "editing"
    /\ tasks' = [tasks EXCEPT ![t].pc = "done", ![t].report = Report("cancelled")]
    /\ messages' = [messages EXCEPT ![tasks[t].view] =
                       [disabled |-> TRUE, content |-> "Cancelled"]]
    /\ UNCHANGED <<guild, views, PENDING_ACTIONS, inflight, notices, now, clicks>>

\* the view's timeout (main.py:342): no accepted interaction for `timeout`
TimeoutDue(m) == ~views[m].stopped /\ views[m].timeout # 0 /\ now >= views[m].expiry

\* a timeout that stops every view
Timeout_AllViews(m) ==
    /\ m \in DOMAIN views
    /\ TimeoutDue(m)
    /\ views' = [k \in DOMAIN views |-> [views[k] EXCEPT !.stopped = TRUE]]
    /\ UNCHANGED <<guild, tasks, messages, PENDING_ACTIONS, inflight, notices, now, clicks>>

Timeout(m) ==
    /\ m \in DOMAIN views
    /\ TimeoutDue(m)
    /\ views' = [views EXCEPT ![m].stopped = TRUE]
    /\ UNCHANGED <<guild, tasks, messages, PENDING_ACTIONS, inflight, notices, now, clicks>>

\* the timers that are armed: the expiry times, still ahead, of the views
\* that have not stopped
Expiries == {views[m].expiry : m \in {v \in DOMAIN views :
                 ~views[v].stopped /\ views[v].timeout # 0 /\ views[v].expiry > now}}

Earliest(S) == CHOOSE e \in S : \A f \in S : e <= f

\* time passes, up to the next armed timer at most; a timeout that is due
\* fires first.  Only the time since a prompt was sent matters, so the clock
\* starts with the first prompt.
Tick ==
    /\ now + TickUnit <= MaxTime
    /\ DOMAIN views # {}
    /\ \A m \in DOMAIN views : ~TimeoutDue(m)
    /\ now' = Earliest(Expiries \cup {now + TickUnit})
    /\ UNCHANGED <<guild, tasks, views, messages, PENDING_ACTIONS, inflight, notices, clicks>>

\* who invokes /server_ai: a member with manage_guild and one without
Invokers == {AliceId, CarolId}

Next ==
    \/ \E user \in Invokers, auto \in BOOLEAN, inGuild \in BOOLEAN :
           ServerAiInvoke(user, auto, inGuild)
    \/ \E t \in TaskIds, reply \in ModelReplies : ServerAiModelReturns(t, reply)
    \/ \E t \in TaskIds : ServerAiExecute(t)
    \/ \E t \in TaskIds : ServerAiReport(t)
    \/ \E m \in DOMAIN messages, user \in MemberIds, button \in Buttons : Click(m, user, button)
    \/ \E x \in inflight : Dispatch(x)
    \/ \E t \in TaskIds : ConfirmExecute(t)
    \/ \E t \in TaskIds : ConfirmSummary(t)
    \/ \E t \in TaskIds : ConfirmEdit(t)
    \/ \E t \in TaskIds : CancelEdit(t)
    \/ \E m \in DOMAIN views : Timeout(m)
    \/ Tick

Spec == Init /\ [][Next]_vars

(***************************************************************************)
(* The life of one prompt: the state right after /server_ai, invoked by    *)
(* the member with manage_guild and without auto_confirm, has sent the     *)
(* prompt for a destructive list, and the steps that can follow it.        *)
(***************************************************************************)
ViewLists ==
    {l \in ActionLists : Destructive(l) = "true"} \ {<<A_create_None, A_delete_noref>>}

InitView ==
    /\ now = 0
    /\ guild = InitGuild
    /\ inflight = {}
    /\ notices = {}
    /\ clicks = 0
    /\ \E l \in ViewLists :
        /\ tasks = <<[NewTask("server_ai", AliceId, FALSE, 1, "done") EXCEPT
                         !.actions = l, !.destructive = "true",
                         !.report = Report("pending")]>>
        /\ views = Put(<<>>, 1, ConfirmView(l, AliceId, 0))
        /\ messages = Put(<<>>, 1, [disabled |-> FALSE, content |-> "Confirm AI Actions"])
        /\ PENDING_ACTIONS = Put(<<>>, 1,
               [user_id |-> AliceId, guild_id |-> GuildId, actions |-> l])

NextView ==
    \/ \E m \in DOMAIN messages, user \in MemberIds, button \in Buttons : Click(m, user, button)
    \/ \E x \in inflight : Dispatch(x)
    \/ \E t \in TaskIds : ConfirmExecute(t)
    \/ \E t \in TaskIds : ConfirmSummary(t)
    \/ \E t \in TaskIds : ConfirmEdit(t)
    \/ \E t \in TaskIds : CancelEdit(t)
    \/ \E m \in DOMAIN views : Timeout(m)
    \/ Tick

SpecView == InitView /\ [][NextView]_vars

(***************************************************************************)
(* Two prompts at once: two members with manage_guild have each invoked    *)
(* /server_ai without auto_confirm for a destructive list of their own,    *)
(* and both prompts are waiting.                                           *)
(***************************************************************************)
Requesters == {AliceId, BobId}

InitTwo ==
    /\ now = 0
    /\ guild = InitGuild
    /\ inflight = {}
    /\ notices = {}
    /\ clicks = 0
    /\ \E l1 \in {<<A_delete_gen>>}, l2 \in {<<A_delete_mod>>} :
        /\ tasks = <<[NewTask("server_ai", AliceId, FALSE, 1, "done") EXCEPT
                         !.actions = l1, !.destructive = "true",
                         !.report = Report("pending")],
                     [NewTask("server_ai", BobId, FALSE, 2, "done") EXCEPT
                         !.actions = l2, !.destructive = "true",
                         !.report = Report("pending")]>>
        /\ views = Put(Put(<<>>, 1, ConfirmView(l1, AliceId, 0)), 2, ConfirmView(l2, BobId, 0))
        /\ messages = Put(Put(<<>>, 1, [disabled |-> FALSE, content |-> "Confirm AI Actions"]),
                          2, [disabled |-> FALSE, content |-> "Confirm AI Actions"])
        /\ PENDING_ACTIONS =
               Put(Put(<<>>, 1, [user_id |-> AliceId, guild_id |-> GuildId, actions |-> l1]),
                   2, [user_id |-> BobId, guild_id |-> GuildId, actions |-> l2])

\* the two requesters press the buttons of either prompt
NextTwo ==
    \/ \E m \in DOMAIN messages, user \in Requesters, button \in Buttons : Click(m, user, button)
    \/ \E x \in inflight : Dispatch(x)
    \/ \E t \in TaskIds : ConfirmExecute(t)
    \/ \E t \in TaskIds : ConfirmSummary(t)
    \/ \E t \in TaskIds : ConfirmEdit(t)
    \/ \E t \in TaskIds : CancelEdit(t)
    \/ \E m \in DOMAIN views : Timeout(m)
    \/ Tick

SpecTwo == InitTwo /\ [][NextTwo]_vars

(***************************************************************************)
(* The gate alone: /server_ai is waiting for the model, and the model      *)
(* answers with any list of at most MaxLen elements.                       *)
(***************************************************************************)
MaxLen == 2

GateElements ==
    {A_create_news, A_delete_gen, A_delete_mod, A_delete_all, A_ban, A_no_type,
     A_null_type, A_num_type, NotAnObject}

GateLists == UNION {[1..n -> GateElements] : n \in 0..MaxLen}

GateOutputs == {[json |-> TRUE, isdict |-> TRUE, actions |-> ListOf(l)] : l \in GateLists}

InitGate ==
    /\ now = 0
    /\ guild = InitGuild
    /\ \E auto \in BOOLEAN :
           tasks = <<NewTask("server_ai", AliceId, auto, 0, "calling_model")>>
    /\ views = <<>>
    /\ messages = <<>>
    /\ PENDING_ACTIONS = <<>>
    /\ inflight = {}
    /\ notices = {}
    /\ clicks = 0

NextGate ==
    \E t \in TaskIds, out \in GateOutputs : ServerAiModelReturns(t, Generated(<<J(out)>>))

SpecGate == InitGate /\ [][NextGate]_vars

(***************************************************************************)
(* The parse alone: /server_ai is waiting for the model, the call ends     *)
(* with any text of at most MaxText pieces, and /server_ai runs to its end.*)
(***************************************************************************)
MaxText == 3

ParseValues ==
    {ActionsObject(<<A_create_news>>), ActionsObject(<<A_delete_gen>>),
     ActionsObject(<<>>), EmptyObject, NonObject,
     [json |-> TRUE, isdict |-> TRUE, actions |-> [k |-> "other", items |-> <<>>]]}

ParsePieces == {X, Ch("{"), Ch("}"), Ch("["), Ch("]")} \cup {J(v) : v \in ParseValues}

ParseTexts == UNION {[1..n -> ParsePieces] : n \in 0..MaxText}

ParseReplies ==
    {Generated(b) : b \in ParseTexts} \cup {ErrorStatus(b) : b \in ParseTexts}
        \cup {Other200, CallRaised}

NextParse ==
    \/ \E t \in TaskIds :
           /\ tasks[t].pc = "calling_model"
           /\ \E reply \in ParseReplies : ServerAiModelReturns(t, reply)
    \/ \E t \in TaskIds : ServerAiExecute(t)
    \/ \E t \in TaskIds : ServerAiReport(t)

SpecParse == InitGate /\ [][NextParse]_vars

(***************************************************************************)
(* Resolution alone: a guild in which, for each kind, one entity is named  *)
(* by the decimal text of another's id, and /server_ai about to execute a  *)
(* list of at most MaxRefs actions that refer to entities.                 *)
(***************************************************************************)
MaxRefs == 2

S_11 == <<"1","1">>
S_21 == <<"2","1">>
S_22 == <<"2","2">>
S_31 == <<"3","1">>
S_mention == <<"<","@","3","3",">">>

\* InitGuild with the voice channel named "11", a role 22 named "21" and the
\* third member named "31"
ResolveGuild ==
    [InitGuild EXCEPT
        !.channels = {[id |-> Id.gen, name |-> S_gen, kind |-> "text", cat |-> 0],
                      [id |-> Id.vc, name |-> S_11, kind |-> "voice", cat |-> 0]},
        !.roles = @ \cup {[id |-> Id.mod + 1, name |-> S_21, color |-> 0, perms |-> {}]},
        !.members = {IF m.id = CarolId THEN [m EXCEPT !.name = S_31] ELSE m : m \in Members}]

ResolveActions ==
    {[BaseAction EXCEPT !.type = Str(T_delete_channel), !.name_or_id = Str(r)] :
        r \in {S_11, S_gen, S_zzz}}
    \cup {[BaseAction EXCEPT !.type = Str(T_delete_role), !.name_or_id = Str(r)] :
        r \in {S_21, S_22, S_mod}}
    \cup {[BaseAction EXCEPT !.type = Str(T_assign_role), !.user = Str(u), !.role = Str(r)] :
        u \in {S_31, S_mention, S_alice}, r \in {S_21, S_mod}}

ResolveLists == UNION {[1..n -> ResolveActions] : n \in 1..MaxRefs}

InitResolve ==
    /\ now = 0
    /\ guild = ResolveGuild
    /\ \E l \in ResolveLists :
           tasks = <<[NewTask("server_ai", AliceId, TRUE, 0, "executing") EXCEPT
                         !.actions = l, !.destructive = Destructive(l),
                         !.how = "generated", !.model_text = <<J(ActionsObject(l))>>,
                         !.parsed = ActionsObject(l)]>>
    /\ views = <<>>
    /\ messages = <<>>
    /\ PENDING_ACTIONS = <<>>
    /\ inflight = {}
    /\ notices = {}
    /\ clicks = 0

NextResolve ==
    \/ \E t \in TaskIds : ServerAiExecute(t)
    \/ \E t \in TaskIds : ServerAiReport(t)

SpecResolve == InitResolve /\ [][NextResolve]_vars

\* ---- the executor on permission, category and membership actions ----

MaxExec == 2

\* a guild whose channels already carry overwrites and where the reference
\* "alice" names both a role and a member
ExecGuild ==
    [InitGuild EXCEPT
        !.roles = @ \cup {[id |-> Id.mod + 1, name |-> S_alice, color |-> 0, perms |-> {}]},
        !.overwrites =
            {[ch |-> Id.gen, target |-> GuildId,
              ow |-> [send_messages |-> "T", view_channel |-> "F"]],
             [ch |-> Id.gen, target |-> Id.mod,
              ow |-> [send_messages |-> "F", view_channel |-> "T"]],
             [ch |-> Id.gen, target |-> AliceId,
              ow |-> [send_messages |-> "F", view_channel |-> "N"]],
             [ch |-> Id.vc, target |-> GuildId,
              ow |-> [send_messages |-> "N", view_channel |-> "T"]]}]

PermDict(items) == [k |-> "dict", items |-> items]

ExecPermissions ==
    {PermDict(<<[key |-> "send_messages", val |-> "F"]>>),
     PermDict(<<[key |-> "view_channel", val |-> "T"], [key |-> "bogus", val |-> "T"]>>),
     PermDict(<<[key |-> "send_messages", val |-> "N"], [key |-> "view_channel", val |-> "X"]>>),
     PermDict(<<[key |-> "send_messages", val |-> "T"], [key |-> "pair", val |-> "T"]>>)}

ExecActions ==
    {[BaseAction EXCEPT !.type = Str(ty), !.name_or_id = Str(r)] :
        ty \in {T_lock_channel, T_unlock_channel}, r \in {S_gen, S_vc, S_zzz}}
    \cup {[BaseAction EXCEPT !.type = Str(T_set_channel_permissions), !.channel = Str(S_gen),
                             !.role_or_user = Str(r), !.permissions = p] :
            r \in {S_mod, S_alice, S_carol, S_zzz}, p \in ExecPermissions}
    \cup {[BaseAction EXCEPT !.type = Str(T_set_channel_permissions), !.channel = Str(r),
                             !.role_or_user = Str(S_mod),
                             !.permissions = PermDict(<<[key |-> "view_channel", val |-> "F"]>>)] :
            r \in {S_vc, S_zzz}}
    \cup {[BaseAction EXCEPT !.type = Str(T_create_category), !.name = Str(S_ops)],
          [BaseAction EXCEPT !.type = Str(T_create_channel), !.name = Str(S_news),
                             !.category = Str(S_ops)],
          [BaseAction EXCEPT !.type = Str(T_create_channel), !.name = Str(S_news)],
          [BaseAction EXCEPT !.type = Str(T_create_channel), !.name = Str(S_news),
                             !.category = Str(S_ops),
                             !.overwrites = PermDict(<<
                                 [role |-> S_mod,
                                  perms |-> PermDict(<<[key |-> "send_messages", val |-> "F"]>>)],
                                 [role |-> S_zzz, perms |-> [k |-> "list", items |-> <<>>]]>>)],
          [BaseAction EXCEPT !.type = Str(T_create_channel), !.name = Str(S_news),
                             !.category = Str(S_ops),
                             !.overwrites = PermDict(<<
                                 [role |-> S_alice, perms |-> [k |-> "list", items |-> <<>>]]>>)]}
    \cup {[BaseAction EXCEPT !.type = Str(ty), !.user = Str(u), !.role = Str(r)] :
            ty \in {T_assign_role, T_remove_role}, u \in {S_bob, S_zzz}, r \in {S_mod, S_zzz}}
    \cup {A_delete_gen, A_delete_zzz, A_delete_mod}

ExecLists == UNION {[1..n -> ExecActions] : n \in 1..MaxExec}

InitExec ==
    /\ now = 0
    /\ guild = ExecGuild
    /\ \E l \in ExecLists :
           tasks = <<[NewTask("server_ai", AliceId, TRUE, 0, "executing") EXCEPT
                         !.actions = l, !.destructive = Destructive(l),
                         !.how = "generated", !.model_text = <<J(ActionsObject(l))>>,
                         !.parsed = ActionsObject(l)]>>
    /\ views = <<>>
    /\ messages = <<>>
    /\ PENDING_ACTIONS = <<>>
    /\ inflight = {}
    /\ notices = {}
    /\ clicks = 0

NextExec ==
    \/ \E t \in TaskIds : ServerAiExecute(t)
    \/ \E t \in TaskIds : ServerAiReport(t)

SpecExec == InitExec /\ [][NextExec]_vars

(***************************************************************************)
(* The direct commands (main.py:400-565).  Each is one handler; its        *)
(* arguments come resolved from the client (a channel argument is a        *)
(* channel of the guild).  An outcome is the guild after the command,      *)
(* whether the command answered with its success message, and whether an   *)
(* exception left the handler (the platform rejected the call).            *)
(***************************************************************************)
MaxDirect == 2

Did(g, ok, raised) == [g |-> g, ok |-> ok, raised |-> raised]

\* /create_role, main.py:400-415; color is a string or None
slash_create_role(g, name, color) ==
    LET parsed == IF color.k = "str" THEN PyIntHex(StripHash(color.s)) ELSE -1
    IN  IF Truthy(color) /\ parsed < 0 THEN {Did(g, FALSE, FALSE)}
        ELSE {Did(AddRole(g, name, IF Truthy(color) THEN parsed ELSE 0, {}), TRUE, FALSE),
              Did(g, FALSE, TRUE)}

\* /delete_channel, main.py:435-440; ch is a text channel of the guild
slash_delete_channel(g, ch) ==
    {Did(RemoveChannel(g, ch.id), TRUE, FALSE), Did(g, FALSE, TRUE)}

\* /create_category, main.py:486-494
slash_create_category(g, name) ==
    {Did(AddChannel(g, name, "category", 0), TRUE, FALSE), Did(g, FALSE, TRUE)}

S_ff == <<"#","f","f">>
S_zz == <<"z","z">>

DirectNames == {S_mod, S_ops}

DirectColors == {Null, Str(S_ff), Str(S_zz)}

DirectTasks == {t \in TaskIds : tasks[t].kind \notin {"server_ai", "confirm", "cancel"}}

\* a direct command of `user` has run with outcome o; `a` is the action of
\* the same kind and arguments
DirectDone(kind, user, a, o) ==
    /\ guild' = o.g
    /\ tasks' = Append(tasks,
           [NewTask(kind, user, FALSE, 0, IF o.raised THEN "crashed" ELSE "done") EXCEPT
               !.actions = <<a>>,
               !.results = <<[ok |-> o.ok, message |-> Msg(kind, <<>>)]>>,
               !.crash = IF o.raised THEN "platform" ELSE "",
               !.report = IF o.raised THEN NoReport ELSE Report("responded")])
    /\ UNCHANGED notices

\* ADMIN_CHECK refuses the command of a member without manage_guild
DirectRefused(user) ==
    /\ notices' = notices \cup {<<"missing_permissions", 0, user>>}
    /\ UNCHANGED <<guild, tasks>>

SlashCreateRole(user, name, color) ==
    /\ Cardinality(DirectTasks) < MaxDirect
    /\ IF ~ADMIN_CHECK(user) THEN DirectRefused(user)
       ELSE \E o \in slash_create_role(guild, name, color) :
               DirectDone("slash_create_role", user,
                          [BaseAction EXCEPT !.type = Str(T_create_role),
                                             !.name = Str(name), !.color = color], o)
    /\ UNCHANGED <<views, messages, PENDING_ACTIONS, inflight, now, clicks>>

SlashDeleteChannel(user, ch) ==
    /\ Cardinality(DirectTasks) < MaxDirect
    /\ ch \in guild.channels /\ ch.kind = "text"
    /\ IF ~ADMIN_CHECK(user) THEN DirectRefused(user)
       ELSE \E o \in slash_delete_channel(guild, ch) :
               DirectDone("slash_delete_channel", user,
                          [BaseAction EXCEPT !.type = Str(T_delete_channel),
                                             !.name_or_id = Str(DecimalOf(ch.id))], o)
    /\ UNCHANGED <<views, messages, PENDING_ACTIONS, inflight, now, clicks>>

SlashCreateCategory(user, name) ==
    /\ Cardinality(DirectTasks) < MaxDirect
    /\ IF ~ADMIN_CHECK(user) THEN DirectRefused(user)
       ELSE \E o \in slash_create_category(guild, name) :
               DirectDone("slash_create_category", user,
                          [BaseAction EXCEPT !.type = Str(T_create_category),
                                             !.name = Str(name)], o)
    /\ UNCHANGED <<views, messages, PENDING_ACTIONS, inflight, now, clicks>>

NextDirect ==
    \/ \E user \in Invokers, name \in DirectNames, color \in DirectColors :
           SlashCreateRole(user, name, color)
    \/ \E user \in Invokers, ch \in guild.channels : SlashDeleteChannel(user, ch)
    \/ \E user \in Invokers, name \in DirectNames : SlashCreateCategory(user, name)

SpecDirect == Init /\ [][NextDirect]_vars

(***************************************************************************)
(* Properties.                                                             *)
(***************************************************************************)
\* the confirm and cancel callbacks that ran for the prompt m
ConfirmTasks(m) == {t \in TaskIds : tasks[t].kind = "confirm" /\ tasks[t].view = m}

CancelTasks(m) == {t \in TaskIds : tasks[t].kind = "cancel" /\ tasks[t].view = m}

\* task t has called execute_action on the idx-th action of its list
Executed(t, idx) ==
    \/ tasks[t].i > idx
    \/ tasks[t].crash = "execute" /\ tasks[t].i = idx

\* task t entered its execution loop, and has left it
ReachedExecution(t) ==
    /\ tasks[t].kind \in {"server_ai", "confirm"}
    /\ tasks[t].pc = "executing" \/ tasks[t].i > 1 \/ tasks[t].crash = "execute"

Authorized(m, user) == user = views[m].author_id \/ MemberOf(user).administrator

\* the tag of element a is a string that starts with delete_
HasDeletePrefix(a) == a.isdict /\ a.type.k = "str" /\ StartsWith(a.type.s, S_delete_)

\* the tag of element a is exactly delete_channel or delete_role
IsDeletion(a) == a.isdict /\ (IsStrEq(a.type, T_delete_channel) \/ IsStrEq(a.type, T_delete_role))

\* element a is an object whose tag is a string or is missing
PlainTag(a) == a.isdict /\ a.type.k \in {"str", "absent"}

\* element a is an object whose tag is not one of the ten kinds
UnknownTag(a) == a.isdict /\ ~(a.type.k = "str" /\ a.type.s \in KnownTypes)

\* C1: for one pending confirmation, whatever confirms arrive and however
\* they interleave, each stored action is executed at most once in total.
C1_ExecutedAtMostOnce ==
    \A m \in DOMAIN views : \A idx \in 1..Len(views[m].actions) :
        Cardinality({t \in ConfirmTasks(m) : Executed(t, idx)}) <= 1

\* C2: once a cancel by an authorized actor has been accepted, a confirm that
\* is handled after it executes none of the stored actions.
C2_NoExecutionAfterCancel ==
    \A m \in DOMAIN views : \A c \in CancelTasks(m) : \A t \in ConfirmTasks(m) :
        t > c => ~Executed(t, 1)

\* C3: a prompt that nobody authorized confirmed or cancelled within
\* ViewTimeout of its creation has stopped taking interactions once that time
\* is over, and no confirm or cancel callback ever runs for it: none of its
\* actions is executed.
C3_TimeoutRejects ==
    \A m \in DOMAIN views :
        (/\ now > views[m].created + ViewTimeout
         /\ \A t \in ConfirmTasks(m) \cup CancelTasks(m) :
                tasks[t].at > views[m].created + ViewTimeout)
        => /\ views[m].stopped
           /\ ConfirmTasks(m) \cup CancelTasks(m) = {}
           /\ ~views[m].result.set

\* C3, its case: the time is over, the requester's late attempt was dropped,
\* and nothing ran
C3_Witness ==
    \E m \in DOMAIN views :
        /\ now > views[m].created + ViewTimeout
        /\ views[m].stopped
        /\ <<"interaction_failed", m, views[m].author_id>> \in notices
        /\ ConfirmTasks(m) \cup CancelTasks(m) = {}
        /\ guild = InitGuild

\* C4: when the interaction of a member who is neither the requester nor an
\* administrator is handled, no callback starts (so no action executes) and
\* the view, the prompt and the guild stay as they were: the confirmation is
\* as pending as before.
C4_UnauthorizedRejected ==
    [][\A x \in inflight :
            (x \notin inflight' /\ ~Authorized(x.view, x.user))
            => /\ tasks' = tasks
               /\ views' = views
               /\ messages' = messages
               /\ guild' = guild
               /\ PENDING_ACTIONS' = PENDING_ACTIONS]_vars

\* C4, its case: an unauthorized member was refused, the prompt is still
\* live, and the requester's confirm is then accepted
C4_Witness ==
    \E m \in DOMAIN views :
        /\ <<"not_allowed", m, CarolId>> \in notices
        /\ ~views[m].stopped
        /\ \E t \in ConfirmTasks(m) : tasks[t].user = views[m].author_id /\ tasks[t].pc = "done"

\* C5: a list that contains a deletion, without auto_confirm, ends /server_ai
\* in the pending state with nothing executed; and a confirm callback that has
\* left its loop has one result per stored action.
C5_PendingThenConfirm ==
    /\ \A t \in ServerAiTasks :
          (/\ Finished(t)
           /\ ~tasks[t].auto
           /\ \E i \in 1..Len(tasks[t].actions) : IsDeletion(tasks[t].actions[i]))
          => /\ tasks[t].pc = "done"
             /\ tasks[t].report.kind = "pending"
             /\ tasks[t].results = <<>>
    /\ \A m \in DOMAIN views : \A t \in ConfirmTasks(m) :
          tasks[t].pc # "executing" => Len(tasks[t].results) = Len(views[m].actions)

\* C6 as stated: the gate's answer is true exactly when some tag is
\* delete_channel or delete_role.
C6_ExactTags ==
    \A t \in ServerAiTasks :
        tasks[t].destructive \in {"true", "false"}
        => (tasks[t].destructive = "true"
            <=> \E i \in 1..Len(tasks[t].actions) : IsDeletion(tasks[t].actions[i]))

\* C6 as amended: the gate's answer is true exactly when some tag starts with
\* delete_ and every element before it is an object with a string or missing
\* tag; false exactly when every element is such an object and no tag starts
\* with delete_; false for the empty list.
C6_PrefixTags ==
    /\ Destructive(<<>>) = "false"
    /\ \A t \in ServerAiTasks :
          LET l == tasks[t].actions
          IN  tasks[t].destructive # ""
              => /\ tasks[t].destructive = "true"
                    <=> \E i \in 1..Len(l) :
                            /\ HasDeletePrefix(l[i])
                            /\ \A j \in 1..(i - 1) : PlainTag(l[j])
                 /\ tasks[t].destructive = "false"
                    <=> \A i \in 1..Len(l) : PlainTag(l[i]) /\ ~HasDeletePrefix(l[i])

\* C6, its case: a list whose only delete_ tag is neither delete_channel nor
\* delete_role, and comes second, was judged destructive
C6_Witness ==
    \E t \in ServerAiTasks :
        /\ tasks[t].destructive = "true"
        /\ Len(tasks[t].actions) = 2
        /\ ~HasDeletePrefix(tasks[t].actions[1])
        /\ ~IsDeletion(tasks[t].actions[2])

\* C7: a list with no delete_ tag, or any list with auto_confirm, is executed
\* to the end at once and creates no prompt; a prompt is created only for a
\* list judged destructive without auto_confirm.
C7_ImmediateExecution ==
    \A t \in ServerAiTasks :
        /\ (/\ Finished(t)
            /\ tasks[t].actions # <<>>
            /\ tasks[t].auto
               \/ \A i \in 1..Len(tasks[t].actions) : ~HasDeletePrefix(tasks[t].actions[i]))
           => /\ tasks[t].pc = "done"
              /\ tasks[t].report.kind = "results"
              /\ Len(tasks[t].results) = Len(tasks[t].actions)
              /\ tasks[t].view = 0
        /\ tasks[t].view # 0 => tasks[t].destructive = "true" /\ ~tasks[t].auto

\* C8: a list that reached execution, directly or by confirm, has one result
\* per action once the loop is left, and the counts of the report add up.
C8_OneResultPerAction ==
    \A t \in TaskIds :
        (ReachedExecution(t) /\ tasks[t].pc # "executing")
        => /\ Len(tasks[t].results) = Len(tasks[t].actions)
           /\ tasks[t].report.kind = "results"
              => /\ tasks[t].report.n = Len(tasks[t].actions)
                 /\ tasks[t].report.succeeded + tasks[t].report.failed = tasks[t].report.n

\* C9: no call of execute_action lets an exception out.
C9_ExecuteNeverRaises == \A t \in TaskIds : tasks[t].crash # "execute"

\* C10: a list of objects, one of them with a tag that is not one of the ten
\* kinds, never crashes /server_ai, and its report of results has one result
\* per action.
C10_UnknownTagNeverCrashes ==
    \A t \in ServerAiTasks :
        (/\ \A i \in 1..Len(tasks[t].actions) : tasks[t].actions[i].isdict
         /\ \E i \in 1..Len(tasks[t].actions) : UnknownTag(tasks[t].actions[i]))
        => /\ tasks[t].pc # "crashed"
           /\ tasks[t].report.kind = "results"
              => Len(tasks[t].results) = Len(tasks[t].actions)

\* C11: when the call of the model endpoint failed (another status than 200,
\* a timeout, a transport failure), /server_ai ends with the one report that
\* carries the text of the failure, whatever the payload holds; it executes
\* no action and sends no confirmation prompt.
C11_InferenceFailureNoAction ==
    \A t \in ServerAiTasks :
        tasks[t].how \in {"status", "exception"}
        => /\ tasks[t].pc = "done"
           /\ tasks[t].report.kind = "parse_error"
           /\ tasks[t].report.hasRaw /\ tasks[t].report.raw = tasks[t].model_text
           /\ tasks[t].actions = <<>>
           /\ tasks[t].view = 0

\* the reports /server_ai can end with
ReportKinds == {"guild_only", "parse_error", "no_actions", "pending", "results"}

\* C12: whatever the model text, /server_ai never lets an exception out, and
\* once it has ended it has sent exactly one report.
C12_AlwaysOneReport ==
    \A t \in ServerAiTasks :
        /\ tasks[t].pc # "crashed"
        /\ tasks[t].pc = "done" => tasks[t].report.kind \in ReportKinds
        /\ tasks[t].pc # "done" => tasks[t].report = NoReport

\* /server_ai task t got the model text and read nothing of it that it could
\* act on: `parsed` is an object without "actions", or with an "actions" that
\* is not a list, or is the empty list
ParsedWithoutActions(t) ==
    /\ tasks[t].how # ""
    /\ tasks[t].parsed.json /\ tasks[t].parsed.isdict
    /\ \/ tasks[t].parsed.actions.k \in {"absent", "other"}
       \/ tasks[t].parsed.actions.k = "list" /\ tasks[t].parsed.actions.items = <<>>

\* task t attempted nothing: no action executed, no prompt, no pending entry
NothingAttempted(t) ==
    /\ tasks[t].i = 1 /\ tasks[t].results = <<>> /\ tasks[t].crash = ""
    /\ tasks[t].view = 0 /\ views = <<>> /\ PENDING_ACTIONS = <<>>
    /\ guild = InitGuild

\* C13, as claimed: when the parsed JSON has no "actions" key or its "actions"
\* is not a non-empty list, the report carries the raw model text and no
\* action is attempted.
C13_NoActionsCarriesRawText ==
    \A t \in ServerAiTasks :
        ParsedWithoutActions(t)
        => /\ tasks[t].pc = "done"
           /\ tasks[t].report.hasRaw /\ tasks[t].report.raw = tasks[t].model_text
           /\ NothingAttempted(t)

\* C13, amended: when the parsed JSON is an object that has no "actions" key
\* or whose "actions" is not a non-empty list, /server_ai ends with the fixed
\* report "AI returned no actions to perform.", which does not quote the
\* model text, and no action is attempted.
C13_NoActionsFixedReport ==
    \A t \in ServerAiTasks :
        ParsedWithoutActions(t)
        => /\ tasks[t].pc = "done"
           /\ tasks[t].report = Report("no_actions")
           /\ ~tasks[t].report.hasRaw
           /\ NothingAttempted(t)

\* C13, its case: an object whose "actions" is not a list, found inside prose
C13_Witness ==
    \E t \in ServerAiTasks :
        /\ ParsedWithoutActions(t)
        /\ tasks[t].parsed.actions.k = "other"
        /\ Len(tasks[t].model_text) > 1
        /\ tasks[t].report.kind = "no_actions"

\* the text holds no JSON at all: it is not JSON and none of its substrings
\* from a "{" to a "}" is
NoJsonAtAll(text) ==
    /\ ~json_loads(text).json
    /\ \A i \in 1..Len(text) : \A j \in i..Len(text) :
           (Opens(text[i]) /\ Closes(text[j])) => ~json_loads(SubSeq(text, i, j)).json

\* C14: when the model text holds no JSON at all, /server_ai ends with the
\* single diagnostic that quotes the model text verbatim; no action is
\* executed and no pending confirmation is created.
C14_NoJsonDiagnostic ==
    \A t \in ServerAiTasks :
        (tasks[t].how # "" /\ NoJsonAtAll(tasks[t].model_text))
        => /\ tasks[t].pc = "done"
           /\ tasks[t].report.kind = "parse_error"
           /\ tasks[t].report.hasRaw /\ tasks[t].report.raw = tasks[t].model_text
           /\ NothingAttempted(t)

\* C14, its case: a text with braces that bound no JSON, quoted in the report
C14_Witness ==
    \E t \in ServerAiTasks :
        /\ tasks[t].how = "generated"
        /\ NoJsonAtAll(tasks[t].model_text)
        /\ \E i \in 1..Len(tasks[t].model_text) : tasks[t].model_text[i].c = "{"
        /\ \E i \in 1..Len(tasks[t].model_text) : tasks[t].model_text[i].c = "}"
        /\ tasks[t].report.kind = "parse_error"
        /\ tasks[t].report.raw = tasks[t].model_text

\* the text is the JSON text of value o with prose before and after it, the
\* prose being of plain characters and braces; no prose at all is the text
\* that is exactly the JSON
WrappedJson(text, o) ==
    \E k \in 1..Len(text) :
        /\ text[k] = J(o)
        /\ \A i \in 1..Len(text) : i # k => text[i].c \in {"x", "{", "}"}

\* C15: a model text that is {"actions": l}, alone or inside prose that may
\* itself hold braces, is parsed to that object, and l is the list /server_ai
\* goes on with.
C15_ParserRoundTrip ==
    \A t \in ServerAiTasks : \A l \in ActionLists :
        (tasks[t].how = "generated" /\ WrappedJson(tasks[t].model_text, ActionsObject(l)))
        => /\ tasks[t].parsed = ActionsObject(l)
           /\ tasks[t].actions = l

\* the confirmation of prompt m is resolved: a confirm or a cancel callback
\* has run to its end, or the view has timed out
Resolved(m) ==
    \/ \E t \in ConfirmTasks(m) \cup CancelTasks(m) : tasks[t].pc = "done"
    \/ views[m].stopped

\* C16: the pending table holds no entry for a confirmation that was
\* confirmed, cancelled or has timed out.
C16_PendingDiscarded ==
    \A m \in DOMAIN PENDING_ACTIONS : ~Resolved(m)

\* task t executes its next action in this step, with success
ExecutesOk(t) ==
    /\ tasks[t].pc = "executing"
    /\ tasks'[t].i = tasks[t].i + 1
    /\ tasks'[t].results[tasks[t].i].ok

\* C17: a reference that is the decimal text of an existing entity's id
\* resolves to that entity, also when another entity of the kind is named by
\* the same text; a name is matched only when no entity has that id.  Seen on
\* the actions that act on what they resolve: a successful delete_channel or
\* delete_role removes exactly the entity with that id, a successful
\* assign_role gives the role with that id to the member with that id, and
\* when no entity has the id the entity acted on is one of that name.
C17_IdBeforeName ==
    [][\A t \in TaskIds : ExecutesOk(t) =>
        LET a == tasks[t].actions[tasks[t].i]
            chIds(g) == {c.id : c \in g.channels}
            roleIds(g) == {r.id : r \in g.roles}
        IN  /\ IsStrEq(a.type, T_delete_channel) =>
                  \A c \in guild.channels :
                      /\ a.name_or_id.s = DecimalOf(c.id)
                             => chIds(guild') = chIds(guild) \ {c.id}
                      /\ (c.id \notin chIds(guild')
                          /\ \A d \in guild.channels : a.name_or_id.s # DecimalOf(d.id))
                             => c.name = a.name_or_id.s
            /\ IsStrEq(a.type, T_delete_role) =>
                  \A r \in guild.roles :
                      /\ a.name_or_id.s = DecimalOf(r.id)
                             => roleIds(guild') = roleIds(guild) \ {r.id}
                      /\ (r.id \notin roleIds(guild')
                          /\ \A d \in guild.roles : a.name_or_id.s # DecimalOf(d.id))
                             => r.name = a.name_or_id.s
            /\ IsStrEq(a.type, T_assign_role) =>
                  \A m \in guild.members, r \in guild.roles :
                      (a.user.s = DecimalOf(m.id) /\ a.role.s = DecimalOf(r.id))
                      => guild'.memberRoles =
                             [guild.memberRoles EXCEPT ![m.id] = @ \cup {r.id}]
      ]_vars

\* C17, its case: delete_channel "11" was executed with success in a guild
\* that had channel 11 and a channel named "11"; the one named "11" is there
C17_Witness ==
    \E t \in ServerAiTasks :
        /\ tasks[t].i > 1
        /\ IsStrEq(tasks[t].actions[1].type, T_delete_channel)
        /\ tasks[t].actions[1].name_or_id.s = S_11
        /\ tasks[t].results[1].ok
        /\ \E c \in guild.channels : c.name = S_11 /\ c.id = Id.vc
        /\ \A c \in guild.channels : c.id # Id.gen

\* task t, in one of the two execution loops, calls execute_action on its
\* next action in this step
Executes(t) == tasks[t].pc = "executing" /\ tasks'[t] # tasks[t]

\* the call of this step returned a result, and it says ok
ReturnedOk(t) == tasks'[t].i = tasks[t].i + 1 /\ tasks'[t].results[tasks[t].i].ok

\* the permission map of action a is missing or empty
NoPermissions(a) ==
    \/ a.permissions.k = "absent"
    \/ a.permissions.k = "dict" /\ a.permissions.items = <<>>

\* C18: executing a set_channel_permissions action whose permission map is
\* empty or absent is never reported as a success and leaves the overwrites
\* of the guild's channels as they were.
C18_EmptyPermissionsFail ==
    [][\A t \in TaskIds :
          (/\ Executes(t)
           /\ IsStrEq(tasks[t].actions[tasks[t].i].type, T_set_channel_permissions)
           /\ NoPermissions(tasks[t].actions[tasks[t].i]))
          => /\ ~ReturnedOk(t)
             /\ guild'.overwrites = guild.overwrites
      ]_vars

\* action a is of a known kind and lacks a field its kind requires
LacksRequired(a) ==
    /\ a.isdict /\ a.type.k = "str"
    /\ \/ a.type.s \in {T_create_channel, T_create_role, T_create_category}
          /\ a.name.k = "absent"
       \/ a.type.s \in {T_delete_channel, T_delete_role} /\ a.name_or_id.k = "absent"
       \/ a.type.s \in {T_assign_role, T_remove_role}
          /\ (a.user.k = "absent" \/ a.role.k = "absent")
       \/ a.type.s \in {T_lock_channel, T_unlock_channel} /\ a.name_or_id.k = "absent"

\* C19: executing an action of a known kind that lacks a required field gives
\* a failed result and changes nothing in the guild; a delete without a
\* reference deletes nothing, whatever the entities are named.
C19_MissingFieldFails ==
    [][\A t \in TaskIds :
          (Executes(t) /\ LacksRequired(tasks[t].actions[tasks[t].i]))
          => /\ ~ReturnedOk(t)
             /\ guild' = guild
      ]_vars

\* what a set of outcomes comes to: the guild after, and success or failure
Pairs(outcomes) == {[g |-> o.g, ok |-> o.ok] : o \in outcomes}

ExecPairs(g, a) == {[g |-> o.g, ok |-> o.res.ok] : o \in ExecuteAction(g, a)}

\* C20: in every guild state and for every argument, a direct command can
\* end in the same ways as execute_action on the action of the same kind and
\* arguments, the same guild after and the same success or failure, and a
\* direct command only ever runs for a member with manage_guild.
C20_DirectEqualsExecute ==
    /\ \A name \in DirectNames, color \in DirectColors :
           Pairs(slash_create_role(guild, name, color))
               = ExecPairs(guild, [BaseAction EXCEPT !.type = Str(T_create_role),
                                                     !.name = Str(name), !.color = color])
    /\ \A ch \in {c \in guild.channels : c.kind = "text"} :
           Pairs(slash_delete_channel(guild, ch))
               = ExecPairs(guild, [BaseAction EXCEPT !.type = Str(T_delete_channel),
                                                     !.name_or_id = Str(DecimalOf(ch.id))])
    /\ \A name \in DirectNames :
           Pairs(slash_create_category(guild, name))
               = ExecPairs(guild, [BaseAction EXCEPT !.type = Str(T_create_category),
                                                     !.name = Str(name)])
    /\ \A t \in DirectTasks : MemberOf(tasks[t].user).manage_guild


\* the action a task is about to execute
Current(t) == tasks[t].actions[tasks[t].i]

\* the (channel, target, flag) triples whose overwrite value differs between
\* two guilds
ChangedFlags(g, h) ==
    LET chans == {c.id : c \in g.channels \cup h.channels}
        targets == {r.id : r \in g.roles \cup h.roles} \cup MemberIds
        Val(x, c, tg, f) ==
            LET have == {o \in x.overwrites : o.ch = c /\ o.target = tg}
            IN  IF have = {} THEN "N" ELSE (CHOOSE o \in have : TRUE).ow[f]
    IN  {p \in chans \X targets \X OverwriteFlags :
            Val(g, p[1], p[2], p[3]) # Val(h, p[1], p[2], p[3])}

SameButOverwrites(g, h) == [h EXCEPT !.overwrites = g.overwrites] = g

MapKeys(permissions) == {permissions.items[k].key : k \in DOMAIN permissions.items}

\* C21: a lock or unlock changes at most the send permission of the everyone
\* role on the one resolved channel (to deny, to allow); a permission
\* assignment changes at most the flags its map names, on the one resolved
\* channel and target; every other flag, target and channel and the rest of
\* the guild stay as they were
C21_PermissionFrame ==
    [][\A t \in TaskIds :
          (Executes(t) /\ Current(t).isdict /\ Current(t).type.k = "str"
           /\ Current(t).type.s \in {T_lock_channel, T_unlock_channel, T_set_channel_permissions})
          => LET a == Current(t)
                 lockish == a.type.s # T_set_channel_permissions
                 chans == find_channel_by_name_or_id(guild,
                              PyStr(GetNone(IF lockish THEN a.name_or_id ELSE a.channel)))
                 targets == IF lockish THEN {GuildId}
                            ELSE {x.id : x \in target_obj(guild, GetNone(a.role_or_user))}
                 keys == IF lockish THEN {"send_messages"} ELSE MapKeys(a.permissions)
                 changed == ChangedFlags(guild, guild')
             IN  /\ SameButOverwrites(guild, guild')
                 /\ changed = {}
                    \/ /\ ReturnedOk(t)
                       /\ \E ch \in chans, tg \in targets :
                              changed \subseteq {<<ch.id, tg, f>> : f \in keys}
                 /\ \A p \in changed :
                        lockish => \E o \in guild'.overwrites :
                            /\ o.ch = p[1] /\ o.target = p[2]
                            /\ o.ow.send_messages = IF a.type.s = T_lock_channel THEN "F" ELSE "T"
                 /\ \A p \in changed :
                        ~lockish => \E o \in guild'.overwrites, k \in DOMAIN a.permissions.items :
                            /\ o.ch = p[1] /\ o.target = p[2]
                            /\ a.permissions.items[k].key = p[3]
                            /\ o.ow[p[3]] = a.permissions.items[k].val]_vars

\* a lock of gen has succeeded and the everyone overwrite kept its view flag
C21_Witness ==
    \E t \in TaskIds :
        /\ tasks[t].i > 1
        /\ tasks[t].actions[1].type = Str(T_lock_channel)
        /\ tasks[t].results[1].ok
        /\ [ch |-> Id.gen, target |-> GuildId,
            ow |-> [send_messages |-> "F", view_channel |-> "F"]] \in guild.overwrites
        /\ [ch |-> Id.gen, target |-> Id.mod,
            ow |-> [send_messages |-> "F", view_channel |-> "T"]] \in guild.overwrites


Categories(g, name) == {c \in g.channels : c.kind = "category" /\ c.name = name}

CreatesChannelIn(t) ==
    /\ Executes(t) /\ Current(t).isdict
    /\ Current(t).type = Str(T_create_channel)
    /\ Current(t).category.k = "str" /\ Current(t).category.s # <<>>

\* an earlier action of the list created a category of that name
CreatedEarlier(t, name) ==
    \E j \in 1..(tasks[t].i - 1) :
        /\ tasks[t].actions[j].isdict
        /\ tasks[t].actions[j].type = Str(T_create_category)
        /\ tasks[t].actions[j].name = Str(name)
        /\ tasks[t].results[j].ok

\* C22: a channel creation naming category X, when a category X exists (as it
\* does after an earlier category creation of the same list), adds no category
\* and, when it succeeds, puts the one new channel under an existing category
\* X; when no category X exists, a successful creation adds exactly one
\* category X and puts the new channel under it
C22_CategoryCreatedOnce ==
    [][\A t \in TaskIds :
          CreatesChannelIn(t)
          => LET wanted == Current(t).category.s
                 before == Categories(guild, wanted)
                 after == Categories(guild', wanted)
                 added == {c \in guild'.channels \ guild.channels : c.kind # "category"}
             IN  /\ CreatedEarlier(t, wanted) => before # {}
                 /\ before # {} => after = before
                 /\ before = {} => Cardinality(after) <= 1
                 /\ ReturnedOk(t)
                    => /\ Cardinality(after) = IF before = {} THEN 1 ELSE Cardinality(before)
                       /\ Cardinality(added) = 1
                       /\ \A c \in added : c.cat \in {k.id : k \in after}
                 /\ ~ReturnedOk(t) => added = {}]_vars

\* the list created category ops and then a channel in it: one category ops,
\* the channel under it
C22_Witness ==
    \E t \in TaskIds :
        /\ tasks[t].i > 2
        /\ tasks[t].actions[1].type = Str(T_create_category)
        /\ tasks[t].actions[2].type = Str(T_create_channel)
        /\ tasks[t].actions[2].category = Str(S_ops)
        /\ tasks[t].results[1].ok /\ tasks[t].results[2].ok
        /\ Cardinality(Categories(guild, S_ops)) = 1
        /\ \E c \in guild.channels, k \in Categories(guild, S_ops) :
               c.name = S_news /\ c.cat = k.id


SetsPermissions(t) ==
    /\ Executes(t) /\ Current(t).isdict
    /\ Current(t).type = Str(T_set_channel_permissions)

\* C23: a permission assignment whose reference matches a role changes
\* overwrites of that role only, also when a member matches too; one whose
\* reference matches only a member changes overwrites of that member only; one
\* whose reference matches neither, or whose channel is not found, fails and
\* changes nothing
C23_RoleBeforeMember ==
    [][\A t \in TaskIds :
          SetsPermissions(t)
          => LET ref == PyStr(GetNone(Current(t).role_or_user))
                 roles == {r.id : r \in find_role_by_name_or_id(guild, ref)}
                 members == {m.id : m \in find_member_by_mention_or_id(guild, ref)}
                 chans == find_channel_by_name_or_id(guild, PyStr(GetNone(Current(t).channel)))
                 touched == {o \in guild'.overwrites \ guild.overwrites : TRUE}
             IN  /\ roles # {} => \A o \in touched : o.target \in roles
                 /\ roles = {} => \A o \in touched : o.target \in members
                 /\ guild.overwrites \ guild'.overwrites
                        \subseteq {o \in guild.overwrites :
                                      \E n \in touched : n.ch = o.ch /\ n.target = o.target}
                 /\ (roles \cup members = {} \/ chans = {})
                        => ~ReturnedOk(t) /\ guild' = guild
                 /\ ReturnedOk(t) => Cardinality(touched) <= 1]_vars

\* "alice" names a role and a member: the assignment succeeded, the role's
\* overwrite on gen is written and the member's is as it was
C23_Witness ==
    \E t \in TaskIds :
        /\ tasks[t].i > 1
        /\ tasks[t].actions[1].type = Str(T_set_channel_permissions)
        /\ tasks[t].actions[1].role_or_user = Str(S_alice)
        /\ tasks[t].results[1].ok
        /\ [ch |-> Id.gen, target |-> Id.mod + 1,
            ow |-> [send_messages |-> "F", view_channel |-> "N"]] \in guild.overwrites
        /\ overwrites_for(guild, Id.gen, AliceId) = overwrites_for(ExecGuild, Id.gen, AliceId)


ChangesMembership(t) ==
    /\ Executes(t) /\ Current(t).isdict
    /\ Current(t).type.k = "str"
    /\ Current(t).type.s \in {T_assign_role, T_remove_role}

NamesMember(res) == res.message.t = "Member not found"

NamesRole(res) == res.message.t = "Role not found"

\* the result the step appended
Returned(t) == tasks'[t].results[tasks[t].i]

\* C24 as stated: membership changes only when member and role both resolve;
\* when either is missing the action fails without change and its message
\* names the member exactly when the member is missing and the role exactly
\* when the role is missing, hence both when both are missing
C24_NamesEachMissing ==
    [][\A t \in TaskIds :
          ChangesMembership(t)
          => LET members == find_member_by_mention_or_id(guild, PyStr(GetNone(Current(t).user)))
                 roles == find_role_by_name_or_id(guild, PyStr(GetNone(Current(t).role)))
             IN  /\ guild' # guild => members # {} /\ roles # {}
                 /\ (members = {} \/ roles = {})
                    => /\ ~ReturnedOk(t) /\ guild' = guild
                       /\ NamesMember(Returned(t)) <=> members = {}
                       /\ NamesRole(Returned(t)) <=> roles = {}]_vars

\* C24, amended: membership changes only when member and role both resolve;
\* when either is missing the action fails without change; the message names
\* the member whenever the member is missing, and the role only when the
\* member resolved and the role did not
C24_NamesFirstMissing ==
    [][\A t \in TaskIds :
          ChangesMembership(t)
          => LET members == find_member_by_mention_or_id(guild, PyStr(GetNone(Current(t).user)))
                 roles == find_role_by_name_or_id(guild, PyStr(GetNone(Current(t).role)))
             IN  /\ guild' # guild
                    => /\ members # {} /\ roles # {} /\ ReturnedOk(t)
                       /\ [guild' EXCEPT !.memberRoles = guild.memberRoles] = guild
                 /\ (members = {} \/ roles = {})
                    => /\ ~ReturnedOk(t) /\ guild' = guild
                       /\ NamesMember(Returned(t)) <=> members = {}
                       /\ NamesRole(Returned(t)) <=> (members # {} /\ roles = {})
                       /\ Returned(t).message.a =
                              IF members = {} THEN PyStr(GetNone(Current(t).user))
                              ELSE PyStr(GetNone(Current(t).role))]_vars

\* an assignment whose member and role are both unknown has failed, naming
\* the member
C24_Witness ==
    \E t \in TaskIds :
        /\ tasks[t].i > 1
        /\ tasks[t].actions[1].type = Str(T_assign_role)
        /\ tasks[t].actions[1].user = Str(S_zzz)
        /\ tasks[t].actions[1].role = Str(S_zzz)
        /\ ~tasks[t].results[1].ok
        /\ NamesMember(tasks[t].results[1])
        /\ guild = ExecGuild


\* the step acts on prompt k: its view, its message, its table entry or a
\* confirm or cancel task of it changes or starts
Touches(k) ==
    \/ views'[k] # views[k]
    \/ messages'[k] # messages[k]
    \/ PENDING_ACTIONS'[k] # PENDING_ACTIONS[k]
    \/ \E t \in DOMAIN tasks' :
           /\ tasks'[t].view = k
           /\ t \in DOMAIN tasks => tasks'[t] # tasks[t]

\* C25: with two prompts outstanding, a step that resolves one of them
\* (an accepted click, a turn of its execution, its redraw, its timeout)
\* leaves the other prompt's stored actions, requester, timer and buttons as
\* they were; no step changes any prompt's stored actions or requester; and
\* the guild changes only by executing the next stored action of the prompt
\* the running confirmation belongs to
C25_PromptsIsolated ==
    [][/\ \A k \in DOMAIN views, m \in DOMAIN views :
              (Touches(k) /\ m # k)
              => /\ views'[m] = views[m]
                 /\ messages'[m] = messages[m]
                 /\ PENDING_ACTIONS'[m] = PENDING_ACTIONS[m]
                 /\ \A t \in DOMAIN tasks : tasks[t].view = m => tasks'[t] = tasks[t]
       /\ \A m \in DOMAIN views :
              /\ views'[m].actions = views[m].actions
              /\ views'[m].author_id = views[m].author_id
              /\ PENDING_ACTIONS'[m] = PENDING_ACTIONS[m]
       /\ guild' # guild
          => \E t \in DOMAIN tasks :
                 /\ tasks[t].kind = "confirm" /\ tasks'[t] # tasks[t]
                 /\ \E o \in ExecuteAction(guild,
                                 PENDING_ACTIONS[tasks[t].view].actions[tasks[t].i]) :
                        /\ guild' = o.g
                        /\ ~o.raised => Returned(t) = o.res]_vars

\* the first prompt was confirmed and its deletion done while the second,
\* of another requester, is untouched and still open
C25_Witness ==
    /\ DOMAIN views = {1, 2}
    /\ views[1].result.set
    /\ views[1].actions = <<A_delete_gen>>
    /\ \A c \in guild.channels : c.id # Id.gen
    /\ views[2] = ConfirmView(<<A_delete_mod>>, BobId, 0)
    /\ ~messages[2].disabled
    /\ \A t \in DOMAIN tasks : tasks[t].view = 2 => tasks[t].kind = "server_ai"
    /\ \E r \in guild.roles : r.id = Id.mod


\* h is g plus one empty category of that name
OnlyCategoryAdded(g, h, name) ==
    /\ [h EXCEPT !.channels = g.channels, !.nextId = g.nextId] = g
    /\ g.channels \subseteq h.channels
    /\ \E c \in h.channels \ g.channels :
           /\ h.channels \ g.channels = {c}
           /\ c.kind = "category" /\ c.name = name

\* C26: an action that returns a failed result leaves the guild as it was,
\* except a channel creation naming a category that did not exist, which may
\* leave that new category, and nothing else, behind
C26_FailureChangesNothing ==
    [][\A t \in TaskIds :
          (Executes(t) /\ tasks'[t].i = tasks[t].i + 1 /\ ~Returned(t).ok)
          => \/ guild' = guild
             \/ /\ Current(t).isdict
                /\ Current(t).type = Str(T_create_channel)
                /\ Current(t).category.k = "str"
                /\ Categories(guild, Current(t).category.s) = {}
                /\ OnlyCategoryAdded(guild, guild', Current(t).category.s)]_vars

\* a channel creation in the missing category ops failed: the category is
\* there, the channel is not
C26_Witness ==
    \E t \in TaskIds :
        /\ tasks[t].i > 1
        /\ tasks[t].actions[1].type = Str(T_create_channel)
        /\ tasks[t].actions[1].category = Str(S_ops)
        /\ ~tasks[t].results[1].ok
        /\ OnlyCategoryAdded(ExecGuild, guild, S_ops)

====
